---------------------------- MODULE Spec2Model ----------------------------
(***************************************************************************)
(* Model of analysis/rq2_compliance_check.py: the ten architectural        *)
(* constraint checks (C1..C10) run by main() over a source tree, and the   *)
(* summary and violation tables main() writes.                             *)
(*                                                                         *)
(* Python strings are sequences of one-character strings, so that `in`,    *)
(* startswith, endswith, lower and string comparison are computed          *)
(* character by character as the interpreter computes them.  A path is a   *)
(* sequence of components; str(path) joins them with "/".                  *)
(***************************************************************************)
EXTENDS Integers, Sequences, FiniteSets, TLC

(***************************************************************************)
(* Python str operations                                                   *)
(***************************************************************************)

Range(s) == {s[i] : i \in DOMAIN s}

\* The characters of the paths, package names, imports and constraint ids,
\* in code-point order.
CodePoints == <<" ","*","-",".","/","0","1","2","3","4","5","6","7","8","9",";","A","B","C","D","E","F","G","H","I","J","K","L","M","N","O","P","Q","R","S","T","U","V","W","X","Y","Z","\\","_","a","b","c","d","e","f","g","h","i","j","k","l","m","n","o","p","q","r","s","t","u","v","w","x","y","z">>

\* ord(ch), up to an order-preserving renumbering.
OrdOf == [ch \in Range(CodePoints) |-> CHOOSE i \in 1..Len(CodePoints) : CodePoints[i] = ch]

ord(ch) == OrdOf[ch]

UpperCase == <<"A","B","C","D","E","F","G","H","I","J","K","L","M","N","O","P","Q","R","S","T","U","V","W","X","Y","Z">>
LowerCase == <<"a","b","c","d","e","f","g","h","i","j","k","l","m","n","o","p","q","r","s","t","u","v","w","x","y","z">>
Digits == <<"0","1","2","3","4","5","6","7","8","9">>

\* [\w] of the re module over the modelled characters.
WordChars == Range(UpperCase) \cup Range(LowerCase) \cup Range(Digits) \cup {"_"}

\* str.lower() of every modelled character.
LowerOf ==
    [ch \in Range(CodePoints) |->
        IF \E i \in DOMAIN UpperCase : UpperCase[i] = ch
        THEN LowerCase[CHOOSE i \in DOMAIN UpperCase : UpperCase[i] = ch]
        ELSE ch]

\* s.lower()
RECURSIVE lower(_)
lower(s) == IF s = <<>> THEN <<>> ELSE <<LowerOf[s[1]]>> \o lower(Tail(s))

\* s.replace("\\", "/")
RECURSIVE replace_backslash(_)
replace_backslash(s) ==
    IF s = <<>> THEN <<>>
    ELSE <<IF s[1] = "\\" THEN "/" ELSE s[1]>> \o replace_backslash(Tail(s))

\* s.startswith(prefix)
startswith(s, prefix) ==
    /\ Len(prefix) <= Len(s)
    /\ SubSeq(s, 1, Len(prefix)) = prefix

\* s.endswith(suffix)
endswith(s, suffix) ==
    /\ Len(suffix) <= Len(s)
    /\ SubSeq(s, Len(s) - Len(suffix) + 1, Len(s)) = suffix

\* sub in s
contains(s, sub) ==
    \E i \in 1..(Len(s) - Len(sub) + 1) : SubSeq(s, i, i + Len(sub) - 1) = sub

\* a < b for two Python strings (lexicographic by code point).
str_less(a, b) ==
    \E k \in 1..Len(b) :
        /\ k <= Len(a) + 1
        /\ \A j \in 1..(k - 1) : a[j] = b[j]
        /\ (k = Len(a) + 1 \/ ord(a[k]) < ord(b[k]))

\* sep.join(parts)
RECURSIVE join(_, _)
join(sep, parts) ==
    IF parts = <<>> THEN <<>>
    ELSE IF Len(parts) = 1 THEN parts[1]
    ELSE parts[1] \o sep \o join(sep, Tail(parts))

\* str(path) of an absolute POSIX path with the given components.
str_path(parts) == <<"/">> \o join(<<"/">>, parts)

\* Concatenation of a sequence of sequences (list.extend over each).
RECURSIVE Flatten(_)
Flatten(ss) == IF ss = <<>> THEN <<>> ELSE ss[1] \o Flatten(Tail(ss))

\* The sequences that enumerate the finite set S once each.
Orderings(S) ==
    {o \in [1..Cardinality(S) -> S] : \A x \in S : \E i \in DOMAIN o : o[i] = x}

(***************************************************************************)
(* CONFIG                                                                  *)
(***************************************************************************)

\* The patterns are regular expressions whose only metacharacter is the
\* escaped dot, so pattern.search(imp) is a substring test for the text below.
DOMAIN_FORBIDDEN_IMPORTS == <<
    <<"j","a","k","a","r","t","a",".","p","e","r","s","i","s","t","e","n","c","e",".">>,
    <<"j","a","v","a","x",".","p","e","r","s","i","s","t","e","n","c","e",".">>,
    <<"o","r","g",".","s","p","r","i","n","g","f","r","a","m","e","w","o","r","k",".">>,
    <<"o","r","g",".","h","i","b","e","r","n","a","t","e",".">>,
    <<"j","a","v","a",".","s","q","l",".">>,
    <<".","i","n","f","r","a","s","t","r","u","c","t","u","r","e",".">> >>

APP_FORBIDDEN_IMPORTS == << <<".","i","n","f","r","a","s","t","r","u","c","t","u","r","e",".">> >>

ADAPTER_SUFFIXES == <<
    <<"A","d","a","p","t","e","r">>, <<"C","o","n","t","r","o","l","l","e","r">>, <<"R","e","p","o","s","i","t","o","r","y">>, <<"C","l","i","e","n","t">>,
    <<"P","u","b","l","i","s","h","e","r">>, <<"L","i","s","t","e","n","e","r">>, <<"M","a","p","p","e","r">>, <<"C","o","n","f","i","g">> >>

DTO_LIKE_SUFFIXES == <<
    <<"D","t","o">>, <<"D","T","O">>, <<"R","e","q","u","e","s","t">>, <<"R","e","s","p","o","n","s","e">>, <<"C","o","m","m","a","n","d">>, <<"Q","u","e","r","y">>, <<"P","a","y","l","o","a","d">> >>

C7_EXCLUDED_SUFFIXES == <<
    <<"P","o","l","i","c","y">>, <<"V","a","l","i","d","a","t","o","r">>, <<"E","x","c","e","p","t","i","o","n">>, <<"T","e","s","t">>, <<"I","T">>, <<"S","p","e","c">> >>

\* The other setting of the C7 scope switch: every service package.
C7_ENFORCE_ALL_SERVICE_PACKAGES == FALSE

C7_ENFORCE_ONLY_APPLICATION_SERVICES == TRUE

SERVICE_SUFFIXES == << <<"S","e","r","v","i","c","e">>, <<"S","e","r","v","i","c","e","D","o","m","a","i","n">>, <<"S","a","g","a">>, <<"O","r","c","h","e","s","t","r","a","t","o","r">> >>

EXPECTED_OPENAPI_FILES == <<
    <<"o","p","e","n","-","f","i","n","a","n","c","e","-","c","o","n","t","e","x","t",".","y","a","m","l">>,
    <<"p","a","y","m","e","n","t","-","c","o","n","t","e","x","t",".","y","a","m","l">>,
    <<"l","o","a","n","-","c","o","n","t","e","x","t",".","y","a","m","l">>,
    <<"r","i","s","k","-","c","o","n","t","e","x","t",".","y","a","m","l">>,
    <<"c","u","s","t","o","m","e","r","-","c","o","n","t","e","x","t",".","y","a","m","l">>,
    <<"c","o","m","p","l","i","a","n","c","e","-","c","o","n","t","e","x","t",".","y","a","m","l">> >>

SHARED_KERNEL_FORBIDDEN == <<
    <<"j","a","k","a","r","t","a",".","p","e","r","s","i","s","t","e","n","c","e",".">>,
    <<"j","a","v","a","x",".","p","e","r","s","i","s","t","e","n","c","e",".">>,
    <<"o","r","g",".","s","p","r","i","n","g","f","r","a","m","e","w","o","r","k",".","d","a","t","a",".">>,
    <<"o","r","g",".","h","i","b","e","r","n","a","t","e",".">>,
    <<"j","a","v","a",".","s","q","l",".">> >>

\* The alternatives of the C2 expression (persistence|jpa|hibernate|jdbc|sql).
C2_PERSISTENCE_ALTERNATIVES == <<
    <<"p","e","r","s","i","s","t","e","n","c","e">>, <<"j","p","a">>, <<"h","i","b","e","r","n","a","t","e">>, <<"j","d","b","c">>, <<"s","q","l">> >>

\* A map in which one prefix of a context starts another prefix of it.
ctx_map_overlapping == <<
    [ctx |-> <<"o","p","e","n","f","i","n","a","n","c","e">>, prefixes |-> << <<"c","o","m",".","e","n","t","e","r","p","r","i","s","e",".","o","p","e","n","f","i","n","a","n","c","e">>, <<"c","o","m",".","b","a","n","k",".","o","p","e","n","f","i","n","a","n","c","e">> >>],
    [ctx |-> <<"p","a","y","m","e","n","t">>,     prefixes |-> << <<"c","o","m",".","b","a","n","k",".","p","a","y","m","e","n","t">> >>],
    [ctx |-> <<"l","o","a","n">>,        prefixes |-> << <<"c","o","m",".","b","a","n","k",".","l","o","a","n">> >>],
    [ctx |-> <<"r","i","s","k">>,        prefixes |-> << <<"c","o","m",".","a","m","a","n","a","h","f","i",".","r","i","s","k">>, <<"c","o","m",".","b","a","n","k",".","r","i","s","k">>, <<"c","o","m",".","b","a","n","k",".","r","i","s">> >>],
    [ctx |-> <<"c","u","s","t","o","m","e","r">>,    prefixes |-> << <<"c","o","m",".","b","a","n","k",".","c","u","s","t","o","m","e","r">> >>],
    [ctx |-> <<"c","o","m","p","l","i","a","n","c","e">>,  prefixes |-> << <<"c","o","m",".","a","m","a","n","a","h","f","i",".","c","o","m","p","l","i","a","n","c","e">>, <<"c","o","m",".","b","a","n","k",".","c","o","m","p","l","i","a","n","c","e">> >>] >>

\* ctx_map of check_c10, in dict insertion order.
ctx_map == <<
    [ctx |-> <<"o","p","e","n","f","i","n","a","n","c","e">>, prefixes |-> << <<"c","o","m",".","e","n","t","e","r","p","r","i","s","e",".","o","p","e","n","f","i","n","a","n","c","e">>, <<"c","o","m",".","b","a","n","k",".","o","p","e","n","f","i","n","a","n","c","e">> >>],
    [ctx |-> <<"p","a","y","m","e","n","t">>,     prefixes |-> << <<"c","o","m",".","b","a","n","k",".","p","a","y","m","e","n","t">> >>],
    [ctx |-> <<"l","o","a","n">>,        prefixes |-> << <<"c","o","m",".","b","a","n","k",".","l","o","a","n">> >>],
    [ctx |-> <<"r","i","s","k">>,        prefixes |-> << <<"c","o","m",".","a","m","a","n","a","h","f","i",".","r","i","s","k">>, <<"c","o","m",".","b","a","n","k",".","r","i","s","k">> >>],
    [ctx |-> <<"c","u","s","t","o","m","e","r">>,    prefixes |-> << <<"c","o","m",".","b","a","n","k",".","c","u","s","t","o","m","e","r">> >>],
    [ctx |-> <<"c","o","m","p","l","i","a","n","c","e">>,  prefixes |-> << <<"c","o","m",".","a","m","a","n","a","h","f","i",".","c","o","m","p","l","i","a","n","c","e">>, <<"c","o","m",".","b","a","n","k",".","c","o","m","p","l","i","a","n","c","e">> >>] >>

\* The components check_c1_c2 appends to repo_root to reach the UC03 subtree.
UC03_INFRA_PARTS == <<
    <<"o","p","e","n","-","f","i","n","a","n","c","e","-","c","o","n","t","e","x","t">>, <<"o","p","e","n","-","f","i","n","a","n","c","e","-","i","n","f","r","a","s","t","r","u","c","t","u","r","e">>,
    <<"s","r","c">>, <<"m","a","i","n">>, <<"j","a","v","a">> >>

\* The components check_c8 appends to repo_root to reach the contracts directory.
OPENAPI_PARTS == << <<"a","p","i">>, <<"o","p","e","n","a","p","i">> >>

\* The constraint ids, in the order the checks are declared and run.
ConstraintIds == <<"C1", "C2", "C3", "C4", "C5", "C6", "C7", "C8", "C9", "C10">>

\* The characters of each constraint id, as sorted() compares them.
IdChars(cid) ==
    CASE cid = "C1" -> <<"C","1">> [] cid = "C2" -> <<"C","2">> [] cid = "C3" -> <<"C","3">>
      [] cid = "C4" -> <<"C","4">> [] cid = "C5" -> <<"C","5">> [] cid = "C6" -> <<"C","6">>
      [] cid = "C7" -> <<"C","7">> [] cid = "C8" -> <<"C","8">> [] cid = "C9" -> <<"C","9">>
      [] cid = "C10" -> <<"C","1","0">>

(***************************************************************************)
(* HELPERS                                                                 *)
(***************************************************************************)

\* any(classname.endswith(s) for s in suffixes)
any_endswith(classname, suffixes) ==
    \E i \in DOMAIN suffixes : endswith(classname, suffixes[i])

\* path.stem: the final component without its last suffix.
get_classname(path) ==
    LET name == path[Len(path)]
        dots == {i \in DOMAIN name : name[i] = "."}
        last == CHOOSE i \in dots : \A j \in dots : j <= i
    IN  IF dots # {} /\ 1 < last /\ last < Len(name)
        THEN SubSeq(name, 1, last - 1)
        ELSE name

\* path_contains is defined by the source and called by no check.
path_contains(path, segment) ==
    \E i \in DOMAIN path : lower(path[i]) = lower(segment)

\* A package counted as a domain package wherever "domain" occurs in it.
is_domain_package_substring(pkg) == contains(pkg, <<"d","o","m","a","i","n">>)

is_domain_package(pkg) ==
    contains(pkg, <<".","d","o","m","a","i","n",".">>) \/ endswith(pkg, <<".","d","o","m","a","i","n">>)

is_application_package(pkg) ==
    contains(pkg, <<".","a","p","p","l","i","c","a","t","i","o","n",".">>) \/ endswith(pkg, <<".","a","p","p","l","i","c","a","t","i","o","n">>)

is_adapter_package(pkg) ==
    contains(pkg, <<".","i","n","f","r","a","s","t","r","u","c","t","u","r","e",".","a","d","a","p","t","e","r",".">>) \/ contains(pkg, <<".","i","n","f","r","a","s","t","r","u","c","t","u","r","e",".","a","d","a","p","t","e","r">>)

\* A test path told by its directories alone.
is_test_path_directories_only(path) ==
    LET p == replace_backslash(lower(str_path(path)))
    IN  contains(p, <<"/","s","r","c","/","t","e","s","t","/">>) \/ contains(p, <<"/","t","e","s","t","/">>)

is_test_path(path) ==
    LET p == replace_backslash(lower(str_path(path)))
    IN  \/ contains(p, <<"/","s","r","c","/","t","e","s","t","/">>)
        \/ endswith(p, <<"t","e","s","t",".","j","a","v","a">>)
        \/ contains(p, <<"/","t","e","s","t","/">>)

is_dto_package(pkg) ==
    \/ contains(pkg, <<".","d","t","o",".">>) \/ endswith(pkg, <<".","d","t","o">>)
    \/ contains(pkg, <<".","m","o","d","e","l",".">>) \/ endswith(pkg, <<".","m","o","d","e","l">>)

is_dto_like_classname(classname) == any_endswith(classname, DTO_LIKE_SUFFIXES)

is_excluded_c7_classname(classname) == any_endswith(classname, C7_EXCLUDED_SUFFIXES)

is_application_service_package(pkg) ==
    contains(pkg, <<".","a","p","p","l","i","c","a","t","i","o","n",".","s","e","r","v","i","c","e">>) \/ endswith(pkg, <<".","a","p","p","l","i","c","a","t","i","o","n",".","s","e","r","v","i","c","e">>)

is_domain_event_package(pkg) ==
    \/ contains(pkg, <<".","d","o","m","a","i","n",".","e","v","e","n","t",".">>) \/ contains(pkg, <<".","d","o","m","a","i","n",".","e","v","e","n","t">>)
    \/ contains(pkg, <<".","d","o","m","a","i","n",".","e","v","e","n","t","s",".">>) \/ contains(pkg, <<".","d","o","m","a","i","n",".","e","v","e","n","t","s">>)

\* A service test that leaves the application services to their own test.
is_service_package_without_application(pkg) ==
    \/ contains(pkg, <<".","d","o","m","a","i","n",".","s","e","r","v","i","c","e">>)
    \/ endswith(pkg, <<".","s","e","r","v","i","c","e">>)

is_service_package(pkg) ==
    \/ contains(pkg, <<".","a","p","p","l","i","c","a","t","i","o","n",".","s","e","r","v","i","c","e">>)
    \/ contains(pkg, <<".","d","o","m","a","i","n",".","s","e","r","v","i","c","e">>)
    \/ endswith(pkg, <<".","s","e","r","v","i","c","e">>)

is_shared_kernel(path) ==
    LET p == replace_backslash(lower(str_path(path)))
    IN  \/ contains(p, <<"s","h","a","r","e","d","-","k","e","r","n","e","l">>) \/ contains(p, <<"s","h","a","r","e","d","_","k","e","r","n","e","l">>)
        \/ contains(p, <<"c","o","m","m","o","n","-","d","o","m","a","i","n">>) \/ contains(p, <<"c","o","m","m","o","n","_","d","o","m","a","i","n">>)

is_uc03_infrastructure(path) ==
    LET p == replace_backslash(lower(str_path(path)))
    IN  contains(p, <<"u","c","0","3">>) /\ contains(p, <<"i","n","f","r","a","s","t","r","u","c","t","u","r","e">>)

is_uc03_domain_or_app(path) ==
    LET p == replace_backslash(lower(str_path(path)))
    IN  contains(p, <<"u","c","0","3">>) /\ (contains(p, <<"d","o","m","a","i","n">>) \/ contains(p, <<"a","p","p","l","i","c","a","t","i","o","n">>))

(***************************************************************************)
(* Files and their text                                                    *)
(*                                                                         *)
(* A directory entry is [path, kind, bytes, lines]: path is the sequence   *)
(* of components below repo_root; kind is "file", or "dir" for a           *)
(* directory whose name ends in .java, which open() refuses with an        *)
(* OSError; bytes is "utf-8" when the bytes are valid UTF-8 and "latin-1"  *)
(* when they are not; lines is the text, each line a sequence of lexical   *)
(* tokens (a keyword, a run of blanks, a name, ";").                       *)
(***************************************************************************)

ENCODINGS == <<"utf-8", "utf-8-sig", "latin-1">>

\* path.read_text(encoding=enc, errors=errors): the text, or the exception.
read_text(entry, enc, errors) ==
    IF entry.kind # "file"
    THEN [exc |-> "OSError", text |-> <<>>]
    ELSE IF errors = "strict" /\ enc \in {"utf-8", "utf-8-sig"} /\ entry.bytes = "latin-1"
    THEN [exc |-> "UnicodeDecodeError", text |-> <<>>]
    ELSE [exc |-> "none", text |-> entry.lines]

\* read_file from its k-th encoding on: the strict attempts, whose
\* UnicodeDecodeError and OSError are caught, then the unguarded last read.
RECURSIVE read_file_from(_, _)
read_file_from(entry, k) ==
    IF k <= Len(ENCODINGS)
    THEN LET r == read_text(entry, ENCODINGS[k], "strict")
         IN  IF r.exc = "none"
             THEN [raised |-> FALSE, text |-> r.text]
             ELSE read_file_from(entry, k + 1)
    ELSE LET r == read_text(entry, "utf-8", "ignore")
         IN  [raised |-> r.exc # "none", text |-> r.text]

read_file(entry) == read_file_from(entry, 1)

\* \s+ : a token that is a run of blanks.
is_blank(tok) == tok # <<>> /\ \A i \in DOMAIN tok : tok[i] = " "

\* [\w.]+ or [\w.*]+ : a token made of word characters and the extra ones.
is_name(tok, extra) == tok # <<>> /\ \A i \in DOMAIN tok : tok[i] \in WordChars \cup extra

\* ^\s*<keyword>\s+(<name>)\s*; matched at the start of a line: the position
\* of the captured name, or 0 when the line does not match.
match_declaration(line, keyword, extra) ==
    LET k == IF Len(line) >= 1 /\ is_blank(line[1]) THEN 2 ELSE 1
        semi == IF Len(line) >= k + 3 /\ is_blank(line[k + 3]) THEN k + 4 ELSE k + 3
    IN  IF /\ Len(line) >= semi
           /\ line[k] = keyword
           /\ is_blank(line[k + 1])
           /\ is_name(line[k + 2], extra)
           /\ line[semi] = <<";">>
        THEN k + 2
        ELSE 0

\* re.search(r"^\s*package\s+([\w.]+)\s*;", content, re.MULTILINE)
RECURSIVE get_package(_)
get_package(content) ==
    IF content = <<>> THEN <<>>
    ELSE LET m == match_declaration(content[1], <<"p","a","c","k","a","g","e">>, {"."})
         IN  IF m # 0 THEN content[1][m] ELSE get_package(Tail(content))

\* An extraction that keeps the first of several equal imports only.
RECURSIVE get_imports_distinct(_)
get_imports_distinct(content) ==
    IF content = <<>> THEN <<>>
    ELSE LET before == get_imports_distinct(SubSeq(content, 1, Len(content) - 1))
             m == match_declaration(content[Len(content)], <<"i","m","p","o","r","t">>, {".", "*"})
         IN  IF m # 0 /\ \A i \in DOMAIN before : before[i] # content[Len(content)][m]
             THEN Append(before, content[Len(content)][m])
             ELSE before

\* re.findall(r"^\s*import\s+([\w.*]+)\s*;", content, re.MULTILINE)
RECURSIVE get_imports(_)
get_imports(content) ==
    IF content = <<>> THEN <<>>
    ELSE LET m == match_declaration(content[1], <<"i","m","p","o","r","t">>, {".", "*"})
         IN  (IF m # 0 THEN <<content[1][m]>> ELSE <<>>) \o get_imports(Tail(content))

\* The lines a Java source is written with.
PackageLine(name) == << <<"p","a","c","k","a","g","e">>, <<" ">>, name, <<";">> >>
ImportLine(name) == << <<"i","m","p","o","r","t">>, <<" ">>, name, <<";">> >>
StaticImportLine(name) == << <<"i","m","p","o","r","t">>, <<" ">>, <<"s","t","a","t","i","c">>, <<" ">>, name, <<";">> >>
ClassLine(name) == << <<"p","u","b","l","i","c">>, <<" ">>, <<"c","l","a","s","s">>, <<" ">>, name, <<" ">>, <<"{","}">> >>

(***************************************************************************)
(* CONSTRAINT CHECKS                                                       *)
(*                                                                         *)
(* Every check takes repo_root (a sequence of path components), the tree   *)
(* below it, and java_files, the list find_java_files returns for this     *)
(* call, in the order the file system enumerates it.  It yields            *)
(* [raised, results, violations]: raised when an exception leaves the      *)
(* check, and then nothing is returned to main.                            *)
(***************************************************************************)

\* The path find_java_files or rglob yields for an entry below repo_root.
full_path(repo_root, rel) == repo_root \o rel

Violation(cid, file, issue) == [constraint_id |-> cid, file |-> file, issue |-> issue]

Result(constraint, method, compliant, detail) ==
    [constraint |-> constraint, method |-> method, compliant |-> compliant, detail |-> detail]

\* f"{n} violation(s) found"
violations_found(n) == [fmt |-> "{} violation(s) found", count |-> n]

Raised == [raised |-> TRUE, results |-> <<>>, violations |-> <<>>]

Returned(results, violations) ==
    [raised |-> FALSE, results |-> results, violations |-> violations]

\* Whether read_file raises for one of the entries a check reads.
some_read_raises(entries) == \E e \in entries : read_file(e).raised

\* The pattern loop without its break: one violation per matching pattern.
RECURSIVE scan_patterns_no_break(_, _, _)
scan_patterns_no_break(patterns, imp, v) ==
    IF patterns = <<>> THEN <<>>
    ELSE (IF contains(imp, patterns[1]) THEN <<v>> ELSE <<>>)
         \o scan_patterns_no_break(Tail(patterns), imp, v)

\* for pat in patterns: if pat.search(imp): violations.append(v); break
RECURSIVE scan_patterns(_, _, _)
scan_patterns(patterns, imp, v) ==
    IF patterns = <<>> THEN <<>>
    ELSE IF contains(imp, patterns[1]) THEN <<v>>
    ELSE scan_patterns(Tail(patterns), imp, v)

\* ---- C1, C2 ----

\* re.search(r"(persistence|jpa|hibernate|jdbc|sql)", imp.lower())
c2_matches(imp) ==
    \E i \in DOMAIN C2_PERSISTENCE_ALTERNATIVES :
        contains(lower(imp), C2_PERSISTENCE_ALTERNATIVES[i])

\* Whether check_c1_c2 reads the entry: "uc03" and "matching" occur in its path.
c2_in_scope(repo_root, entry) ==
    LET p == replace_backslash(lower(str_path(full_path(repo_root, entry.path))))
    IN  contains(p, <<"u","c","0","3">>) /\ contains(p, <<"m","a","t","c","h","i","n","g">>)

c2_file_violations(repo_root, entry) ==
    IF ~c2_in_scope(repo_root, entry) THEN <<>>
    ELSE LET imports == get_imports(read_file(entry).text)
         IN  Flatten([i \in DOMAIN imports |->
                 IF c2_matches(imports[i])
                 THEN << Violation("C2", str_path(full_path(repo_root, entry.path)),
                                   <<"Matching package imports persistence: ", imports[i]>>) >>
                 ELSE <<>>])

\* The flag the walk of the UC03 subtree sets for the directory name given.
uc03_dir_found(repo_root, tree, dirname) ==
    \E d \in tree.infra :
        LET parts == full_path(repo_root, UC03_INFRA_PARTS \o d.path)
        IN  /\ d.is_dir
            /\ \E i \in DOMAIN parts : lower(parts[i]) = <<"u","c","0","3">>
            /\ lower(parts[Len(parts)]) = dirname

\* C1 satisfied by either package alone.
c1_compliant_either(audit_pkg, cache_pkg) == audit_pkg \/ cache_pkg

c1_compliant(audit_pkg, cache_pkg) == audit_pkg /\ cache_pkg

check_c1_c2(repo_root, tree, java_files) ==
    LET audit_pkg == uc03_dir_found(repo_root, tree, <<"a","u","d","i","t">>)
        cache_pkg == uc03_dir_found(repo_root, tree, <<"c","a","c","h","e">>)
        compliant == c1_compliant(audit_pkg, cache_pkg)
        c1_violations ==
            IF ~compliant
            THEN << Violation("C1",
                        <<"o","p","e","n","-","f","i","n","a","n","c","e","-","c","o","n","t","e","x","t","/","o","p","e","n","-","f","i","n","a","n","c","e","-","i","n","f","r","a","s","t","r","u","c","t","u","r","e","/",".",".",".","/","u","c","0","3">>,
                        <<"Expected separate audit and cache packages under UC03 infrastructure">>) >>
            ELSE <<>>
        scope == {e \in Range(java_files) : c2_in_scope(repo_root, e)}
        c2_violations ==
            Flatten([i \in DOMAIN java_files |-> c2_file_violations(repo_root, java_files[i])])
    IN  IF some_read_raises(scope) THEN Raised
        ELSE Returned(
            [cid \in {"C1", "C2"} |->
                IF cid = "C1"
                THEN Result("Stateless API layer: audit persistence separated from runtime",
                            "Package separation check (UC03 audit vs cache packages)",
                            compliant,
                            [fmt |-> "audit_pkg={}, cache_pkg={}",
                             audit_pkg |-> audit_pkg, cache_pkg |-> cache_pkg])
                ELSE Result("Fuzzy matching index isolated from transactional systems",
                            "Import scan: UC03 matching package must not import persistence",
                            Len(c2_violations) = 0,
                            violations_found(Len(c2_violations)))],
            c1_violations \o c2_violations)

\* ---- C3 ----

\* check_c3 without the restriction to domain packages.
c3_file_violations_any_package(repo_root, entry) ==
    LET content == read_file(entry).text
        imports == get_imports(content)
    IN  Flatten([i \in DOMAIN imports |->
            scan_patterns(DOMAIN_FORBIDDEN_IMPORTS, imports[i],
                Violation("C3", str_path(full_path(repo_root, entry.path)),
                          <<"Domain imports forbidden dependency: ", imports[i]>>))])

c3_file_violations(repo_root, entry) ==
    LET content == read_file(entry).text
        pkg == get_package(content)
        imports == get_imports(content)
    IN  IF ~is_domain_package(pkg) THEN <<>>
        ELSE Flatten([i \in DOMAIN imports |->
                 scan_patterns(DOMAIN_FORBIDDEN_IMPORTS, imports[i],
                     Violation("C3", str_path(full_path(repo_root, entry.path)),
                               <<"Domain imports forbidden dependency: ", imports[i]>>))])

check_c3(repo_root, tree, java_files) ==
    LET violations ==
            Flatten([i \in DOMAIN java_files |-> c3_file_violations(repo_root, java_files[i])])
    IN  IF some_read_raises(Range(java_files)) THEN Raised
        ELSE Returned(
            [cid \in {"C3"} |->
                Result("Domain layer must be framework/infrastructure independent",
                       "Import scan: forbidden imports in *.domain.* packages",
                       Len(violations) = 0,
                       violations_found(Len(violations)))],
            violations)

\* ---- C4 ----

\* check_c4's loop body without the is_application_package test.
c4_file_violations_any_package(repo_root, entry) ==
    LET imports == get_imports(read_file(entry).text)
    IN  Flatten([i \in DOMAIN imports |->
            scan_patterns(APP_FORBIDDEN_IMPORTS, imports[i],
                Violation("C4", str_path(full_path(repo_root, entry.path)),
                          <<"Application imports infrastructure: ", imports[i]>>))])

c4_file_violations(repo_root, entry) ==
    LET content == read_file(entry).text
        pkg == get_package(content)
        imports == get_imports(content)
    IN  IF ~is_application_package(pkg) THEN <<>>
        ELSE Flatten([i \in DOMAIN imports |->
                 scan_patterns(APP_FORBIDDEN_IMPORTS, imports[i],
                     Violation("C4", str_path(full_path(repo_root, entry.path)),
                               <<"Application imports infrastructure: ", imports[i]>>))])

check_c4(repo_root, tree, java_files) ==
    LET violations ==
            Flatten([i \in DOMAIN java_files |-> c4_file_violations(repo_root, java_files[i])])
    IN  IF some_read_raises(Range(java_files)) THEN Raised
        ELSE Returned(
            [cid \in {"C4"} |->
                Result("Application layer depends on domain ports, not infrastructure adapters",
                       "Import scan: *.infrastructure.* forbidden in *.application.* packages",
                       Len(violations) = 0,
                       violations_found(Len(violations)))],
            violations)

\* ---- C5 ----

\* Whether check_c5 reads the entry: it is not on a test path.
c5_reads(repo_root, entry) == ~is_test_path(full_path(repo_root, entry.path))

\* check_c5's loop body without the DTO exemption.
c5_file_violations_no_dto_exemption(repo_root, entry) ==
    LET path == full_path(repo_root, entry.path)
        pkg == get_package(read_file(entry).text)
        classname == get_classname(path)
    IN  IF is_test_path(path) THEN <<>>
        ELSE IF ~is_adapter_package(pkg) THEN <<>>
        ELSE IF ~any_endswith(classname, ADAPTER_SUFFIXES)
        THEN << Violation("C5", str_path(path),
                    <<"Adapter class '", classname, "' does not end with required suffix">>) >>
        ELSE <<>>

c5_file_violations(repo_root, entry) ==
    LET path == full_path(repo_root, entry.path)
        pkg == get_package(read_file(entry).text)
        classname == get_classname(path)
    IN  IF is_test_path(path) THEN <<>>
        ELSE IF ~is_adapter_package(pkg) THEN <<>>
        ELSE IF is_dto_package(pkg) \/ is_dto_like_classname(classname) THEN <<>>
        ELSE IF ~any_endswith(classname, ADAPTER_SUFFIXES)
        THEN << Violation("C5", str_path(path),
                    <<"Adapter class '", classname, "' does not end with required suffix">>) >>
        ELSE <<>>

check_c5(repo_root, tree, java_files) ==
    LET scope == {e \in Range(java_files) : c5_reads(repo_root, e)}
        violations ==
            Flatten([i \in DOMAIN java_files |-> c5_file_violations(repo_root, java_files[i])])
    IN  IF some_read_raises(scope) THEN Raised
        ELSE Returned(
            [cid \in {"C5"} |->
                Result("Infrastructure adapters explicitly named and isolated",
                       "Naming check: classes in *.infrastructure.adapter.* must use allowed suffixes",
                       Len(violations) = 0,
                       violations_found(Len(violations)))],
            violations)

\* ---- C6 ----

\* check_c6 with the test-path exemption of check_c5 and check_c7.
c6_file_violations_skipping_tests(repo_root, entry) ==
    LET path == full_path(repo_root, entry.path)
        pkg == get_package(read_file(entry).text)
        classname == get_classname(path)
    IN  IF is_test_path(path) THEN <<>>
        ELSE IF ~is_domain_event_package(pkg) THEN <<>>
        ELSE IF ~endswith(classname, <<"E","v","e","n","t">>)
        THEN << Violation("C6", str_path(path),
                    <<"Domain event class '", classname, "' does not end with 'Event'">>) >>
        ELSE <<>>

c6_file_violations(repo_root, entry) ==
    LET path == full_path(repo_root, entry.path)
        pkg == get_package(read_file(entry).text)
        classname == get_classname(path)
    IN  IF ~is_domain_event_package(pkg) THEN <<>>
        ELSE IF ~endswith(classname, <<"E","v","e","n","t">>)
        THEN << Violation("C6", str_path(path),
                    <<"Domain event class '", classname, "' does not end with 'Event'">>) >>
        ELSE <<>>

check_c6(repo_root, tree, java_files) ==
    LET violations ==
            Flatten([i \in DOMAIN java_files |-> c6_file_violations(repo_root, java_files[i])])
    IN  IF some_read_raises(Range(java_files)) THEN Raised
        ELSE Returned(
            [cid \in {"C6"} |->
                Result("Domain events use explicit event naming (Event suffix)",
                       "Naming check: classes in *.domain.event(s).* must end with 'Event'",
                       Len(violations) = 0,
                       violations_found(Len(violations)))],
            violations)

\* ---- C7 ----

\* Whether check_c7 reads the entry: it is not on a test path.
c7_reads(repo_root, entry) == ~is_test_path(full_path(repo_root, entry.path))

\* The scope test of check_c7 under the flag given.
c7_in_scope(only_application_services, pkg) ==
    IF only_application_services
    THEN is_application_service_package(pkg)
    ELSE is_service_package(pkg)

\* The body of check_c7's loop under the flag given.
c7_file_violations_in(only_application_services, repo_root, entry) ==
    LET path == full_path(repo_root, entry.path)
        pkg == get_package(read_file(entry).text)
        classname == get_classname(path)
    IN  IF is_test_path(path) THEN <<>>
        ELSE IF ~c7_in_scope(only_application_services, pkg) THEN <<>>
        ELSE IF is_excluded_c7_classname(classname) THEN <<>>
        ELSE IF ~any_endswith(classname, SERVICE_SUFFIXES)
        THEN << Violation("C7", str_path(path),
                    <<"Service class '", classname, "' does not end with BIAN suffix">>) >>
        ELSE <<>>

c7_file_violations(repo_root, entry) ==
    c7_file_violations_in(C7_ENFORCE_ONLY_APPLICATION_SERVICES, repo_root, entry)

check_c7(repo_root, tree, java_files) ==
    LET scope == {e \in Range(java_files) : c7_reads(repo_root, e)}
        violations ==
            Flatten([i \in DOMAIN java_files |-> c7_file_violations(repo_root, java_files[i])])
    IN  IF some_read_raises(scope) THEN Raised
        ELSE Returned(
            [cid \in {"C7"} |->
                Result("Banking service naming bounded-context aligned (BIAN suffixes)",
                       "Naming check: classes in service packages must use BIAN suffixes",
                       Len(violations) = 0,
                       violations_found(Len(violations)))],
            violations)

\* ---- C8 ----

\* {f.name for f in openapi_dir.glob("*.yaml")} if openapi_dir.exists() else set()
\* The contracts found when the directory is searched for "*.yml".
existing_openapi_yml(tree) ==
    IF tree.openapi.exists
    THEN {n \in tree.openapi.names : endswith(n, <<".","y","m","l">>)}
    ELSE {}

existing_openapi(tree) ==
    IF tree.openapi.exists
    THEN {n \in tree.openapi.names : endswith(n, <<".","y","a","m","l">>)}
    ELSE {}

check_c8(repo_root, tree, java_files) ==
    LET openapi_dir == full_path(repo_root, OPENAPI_PARTS)
        existing == existing_openapi(tree)
        violations ==
            Flatten([i \in DOMAIN EXPECTED_OPENAPI_FILES |->
                IF EXPECTED_OPENAPI_FILES[i] \notin existing
                THEN << Violation("C8",
                            str_path(openapi_dir \o <<EXPECTED_OPENAPI_FILES[i]>>),
                            <<"Missing OpenAPI contract file: ", EXPECTED_OPENAPI_FILES[i]>>) >>
                ELSE <<>>])
    IN  Returned(
            [cid \in {"C8"} |->
                Result("Each bounded context service must publish an OpenAPI contract",
                       "File existence check: api/openapi/<context>.yaml",
                       Len(violations) = 0,
                       [fmt |-> "{} files found; {} missing",
                        found |-> Cardinality(existing), missing |-> Len(violations)])],
            violations)

\* ---- C9 ----

\* Whether check_c9 reads the entry: it is on a shared-kernel path.
c9_reads(repo_root, entry) == is_shared_kernel(full_path(repo_root, entry.path))

\* check_c9 without the restriction to the shared kernel.
c9_file_violations_any_path(repo_root, entry) ==
    LET path == full_path(repo_root, entry.path)
        imports == get_imports(read_file(entry).text)
    IN  Flatten([i \in DOMAIN imports |->
            scan_patterns(SHARED_KERNEL_FORBIDDEN, imports[i],
                Violation("C9", str_path(path),
                          <<"Shared kernel imports persistence: ", imports[i]>>))])

c9_file_violations(repo_root, entry) ==
    LET path == full_path(repo_root, entry.path)
        imports == get_imports(read_file(entry).text)
    IN  IF ~is_shared_kernel(path) THEN <<>>
        ELSE Flatten([i \in DOMAIN imports |->
                 scan_patterns(SHARED_KERNEL_FORBIDDEN, imports[i],
                     Violation("C9", str_path(path),
                               <<"Shared kernel imports persistence: ", imports[i]>>))])

check_c9(repo_root, tree, java_files) ==
    LET scope == {e \in Range(java_files) : c9_reads(repo_root, e)}
        violations ==
            Flatten([i \in DOMAIN java_files |-> c9_file_violations(repo_root, java_files[i])])
    IN  IF some_read_raises(scope) THEN Raised
        ELSE Returned(
            [cid \in {"C9"} |->
                Result("Shared libraries remain code-level only (no shared persistence)",
                       "Import scan: persistence imports forbidden in shared-kernel/common-domain",
                       Len(violations) = 0,
                       violations_found(Len(violations)))],
            violations)

\* ---- C10 ----

\* any(pkg.startswith(p) for p in prefixes)
any_startswith(s, prefixes) == \E i \in DOMAIN prefixes : startswith(s, prefixes[i])

\* The index in ctx_map of the first context one of whose prefixes starts pkg,
\* or 0 (own_ctx is None).
own_ctx(pkg) ==
    LET hits == {k \in DOMAIN ctx_map : any_startswith(pkg, ctx_map[k].prefixes)}
    IN  IF hits = {} THEN 0 ELSE CHOOSE k \in hits : \A j \in hits : k <= j

\* The violations one import adds when ports and APIs are not exempt.
c10_import_violations_without_exemption(file, own, imp) ==
    Flatten([k \in DOMAIN ctx_map |->
        IF k = own THEN <<>>
        ELSE Flatten([j \in DOMAIN ctx_map[k].prefixes |->
                 IF startswith(imp, ctx_map[k].prefixes[j])
                 THEN << Violation("C10", file,
                             <<"Direct cross-context import from '", ctx_map[k].ctx,
                               "': ", imp>>) >>
                 ELSE <<>>])])

\* The violations one import adds: for every other context, for every prefix
\* of it that starts the import, one violation unless the import holds
\* ".port." or ".api.".
c10_import_violations(file, own, imp) ==
    Flatten([k \in DOMAIN ctx_map |->
        IF k = own THEN <<>>
        ELSE Flatten([j \in DOMAIN ctx_map[k].prefixes |->
                 IF startswith(imp, ctx_map[k].prefixes[j])
                 THEN IF contains(imp, <<".","p","o","r","t",".">>) \/ contains(imp, <<".","a","p","i",".">>)
                      THEN <<>>
                      ELSE << Violation("C10", file,
                                  <<"Direct cross-context import from '", ctx_map[k].ctx,
                                    "': ", imp>>) >>
                 ELSE <<>>])])

c10_file_violations(repo_root, entry) ==
    LET content == read_file(entry).text
        pkg == get_package(content)
        own == own_ctx(pkg)
        imports == get_imports(content)
    IN  IF pkg = <<>> THEN <<>>
        ELSE IF own = 0 THEN <<>>
        ELSE Flatten([i \in DOMAIN imports |->
                 c10_import_violations(str_path(full_path(repo_root, entry.path)),
                                       own, imports[i])])

check_c10(repo_root, tree, java_files) ==
    LET violations ==
            Flatten([i \in DOMAIN java_files |-> c10_file_violations(repo_root, java_files[i])])
    IN  IF some_read_raises(Range(java_files)) THEN Raised
        ELSE Returned(
            [cid \in {"C10"} |->
                Result("Cross-context access via explicit OpenAPI contracts and event topics",
                       "Import scan: direct cross-context imports (non-port) flagged as violations",
                       Len(violations) = 0,
                       violations_found(Len(violations)))],
            violations)

(***************************************************************************)
(* The source trees the checks are run over                                *)
(***************************************************************************)

\* The largest number of *.java entries in a tree.
MaxFiles == 2

\* How many times the tree may change during one behaviour of SpecEnv.
MaxTreeChanges == 1

JavaFile(path, lines) == [path |-> path, kind |-> "file", bytes |-> "utf-8", lines |-> lines]

ADAPTER_PKG == <<"c","o","m",".","b","a","n","k",".","l","o","a","n",".","i","n","f","r","a","s","t","r","u","c","t","u","r","e",".","a","d","a","p","t","e","r",".","o","u","t">>

\* The *.java entries a tree is drawn from; no two share a path.
Catalogue == {
    \* domain classes, with and without forbidden imports; Order is in a
    \* domain-service package
    JavaFile(<< <<"p","a","y">>, <<"O","r","d","e","r",".","j","a","v","a">> >>,
        << PackageLine(<<"c","o","m",".","b","a","n","k",".","p","a","y","m","e","n","t",".","d","o","m","a","i","n",".","s","e","r","v","i","c","e">>),
           ImportLine(<<"o","r","g",".","s","p","r","i","n","g","f","r","a","m","e","w","o","r","k",".","F","o","o">>),
           ImportLine(<<"j","a","v","a",".","u","t","i","l",".","L","i","s","t">>),
           ImportLine(<<"c","o","m",".","b","a","n","k",".","l","o","a","n",".","L","o","a","n","A","c","c","o","u","n","t">>),
           ClassLine(<<"O","r","d","e","r">>) >>),
    [path |-> << <<"p","a","y">>, <<"M","o","n","e","y",".","j","a","v","a">> >>, kind |-> "file", bytes |-> "latin-1",
     lines |-> << PackageLine(<<"x",".","y",".","d","o","m","a","i","n",".","z">>),
                  ImportLine(<<"o","r","g",".","s","p","r","i","n","g","f","r","a","m","e","w","o","r","k",".","i","n","f","r","a","s","t","r","u","c","t","u","r","e",".","X">>),
                  ImportLine(<<"j","a","v","a",".","s","q","l",".","D","a","t","e">>),
                  ImportLine(<<"j","a","v","a",".","s","q","l",".","D","a","t","e">>),
                  StaticImportLine(<<"o","r","g",".","h","i","b","e","r","n","a","t","e",".","H",".","h">>),
                  ClassLine(<<"M","o","n","e","y">>) >>],
    \* application services
    JavaFile(<< <<"a","p","p">>, <<"T","r","a","n","s","f","e","r",".","j","a","v","a">> >>,
        << PackageLine(<<"c","o","m",".","b","a","n","k",".","l","o","a","n",".","a","p","p","l","i","c","a","t","i","o","n",".","s","e","r","v","i","c","e">>),
           ImportLine(<<"c","o","m",".","b","a","n","k",".","l","o","a","n",".","i","n","f","r","a","s","t","r","u","c","t","u","r","e",".","a","d","a","p","t","e","r",".","R","e","p","o">>),
           ImportLine(<<"c","o","m",".","b","a","n","k",".","p","a","y","m","e","n","t",".","p","o","r","t",".","P","a","y","P","o","r","t">>),
           ImportLine(<<"c","o","m",".","b","a","n","k",".","r","i","s","k",".","*">>),
           ClassLine(<<"T","r","a","n","s","f","e","r">>) >>),
    JavaFile(<< <<"a","p","p">>, <<"T","r","a","n","s","f","e","r","S","e","r","v","i","c","e",".","j","a","v","a">> >>,
        << PackageLine(<<"c","o","m",".","b","a","n","k",".","l","o","a","n",".","a","p","p","l","i","c","a","t","i","o","n",".","s","e","r","v","i","c","e">>),
           ImportLine(<<"j","a","v","a",".","u","t","i","l",".","L","i","s","t">>),
           ClassLine(<<"T","r","a","n","s","f","e","r","S","e","r","v","i","c","e">>) >>),
    \* adapters
    JavaFile(<< <<"i","n","f","r","a">>, <<"F","o","o",".","j","a","v","a">> >>,
        << PackageLine(ADAPTER_PKG), ClassLine(<<"F","o","o">>) >>),
    JavaFile(<< <<"i","n","f","r","a">>, <<"F","o","o","A","d","a","p","t","e","r",".","j","a","v","a">> >>,
        << PackageLine(ADAPTER_PKG), ClassLine(<<"F","o","o","A","d","a","p","t","e","r">>) >>),
    JavaFile(<< <<"i","n","f","r","a">>, <<"F","o","o","R","e","q","u","e","s","t",".","j","a","v","a">> >>,
        << PackageLine(ADAPTER_PKG), ClassLine(<<"F","o","o","R","e","q","u","e","s","t">>) >>),
    JavaFile(<< <<"u","c","0","3","-","m","a","t","c","h","i","n","g">>, <<"d","t","o">>, <<"B","a","r",".","j","a","v","a">> >>,
        << PackageLine(<<"c","o","m",".","b","a","n","k",".","l","o","a","n",".","i","n","f","r","a","s","t","r","u","c","t","u","r","e",".","a","d","a","p","t","e","r",".","d","t","o">>),
           ImportLine(<<"j","a","v","a","x",".","p","e","r","s","i","s","t","e","n","c","e",".","E","n","t","i","t","y">>),
           ClassLine(<<"B","a","r">>) >>),
    JavaFile(<< <<"s","r","c">>, <<"t","e","s","t">>, <<"B","a","z",".","j","a","v","a">> >>,
        << PackageLine(ADAPTER_PKG), ClassLine(<<"B","a","z">>) >>),
    \* domain events, OrderCreated on a test path
    JavaFile(<< <<"e","v">>, <<"t","e","s","t">>, <<"O","r","d","e","r","C","r","e","a","t","e","d",".","j","a","v","a">> >>,
        << PackageLine(<<"x",".","d","o","m","a","i","n",".","e","v","e","n","t">>), ClassLine(<<"O","r","d","e","r","C","r","e","a","t","e","d">>) >>),
    JavaFile(<< <<"e","v">>, <<"O","r","d","e","r","C","r","e","a","t","e","d","E","v","e","n","t",".","j","a","v","a">> >>,
        << PackageLine(<<"x",".","d","o","m","a","i","n",".","e","v","e","n","t","s",".","o","r","d","e","r">>),
           ImportLine(<<"j","a","v","a",".","u","t","i","l",".","L","i","s","t">>),
           ClassLine(<<"O","r","d","e","r","C","r","e","a","t","e","d","E","v","e","n","t">>) >>),
    \* the UC03 matching package (no package declaration)
    JavaFile(<< <<"u","c","0","3">>, <<"m","a","t","c","h","i","n","g">>, <<"I","n","d","e","x",".","j","a","v","a">> >>,
        << ImportLine(<<"j","a","v","a","x",".","p","e","r","s","i","s","t","e","n","c","e",".","E","n","t","i","t","y">>),
           ImportLine(<<"o","r","g",".","h","2",".","J","d","b","c","D","a","t","a","S","o","u","r","c","e">>),
           ImportLine(<<"j","a","v","a",".","u","t","i","l",".","M","a","p">>),
           ImportLine(<<"c","o","m",".","b","a","n","k",".","l","o","a","n",".","i","n","f","r","a","s","t","r","u","c","t","u","r","e",".","R","e","p","o">>),
           ClassLine(<<"I","n","d","e","x">>) >>),
    \* the shared kernel, in a package whose first segment is "domain"
    JavaFile(<< <<"s","h","a","r","e","d","-","k","e","r","n","e","l">>, <<"B","a","s","e",".","j","a","v","a">> >>,
        << PackageLine(<<"d","o","m","a","i","n",".","e","v","e","n","t","s",".","b","a","s","e">>),
           ImportLine(<<"j","a","v","a",".","s","q","l",".","C","o","n","n","e","c","t","i","o","n">>),
           ImportLine(<<"o","r","g",".","s","p","r","i","n","g","f","r","a","m","e","w","o","r","k",".","d","a","t","a",".","R","e","p","o">>),
           ImportLine(<<"j","a","v","a","x",".","s","q","l",".","D","a","t","a","S","o","u","r","c","e">>),
           ClassLine(<<"B","a","s","e">>) >>),
    \* a directory whose name ends in .java
    [path |-> << <<"g","e","n">>, <<"S","t","u","b",".","j","a","v","a">> >>, kind |-> "dir", bytes |-> "utf-8", lines |-> <<>>] }

\* The sets of entries a tree may hold.
RECURSIVE SubsetsUpTo(_)
SubsetsUpTo(k) ==
    IF k = 0 THEN {{}}
    ELSE LET smaller == SubsetsUpTo(k - 1)
         IN  smaller \cup {S \cup {e} : S \in smaller, e \in Catalogue}

FileSets == SubsetsUpTo(MaxFiles)

Dir(path) == [path |-> path, is_dir |-> TRUE]
PlainFile(path) == [path |-> path, is_dir |-> FALSE]

OpenApi(exists, names) == [exists |-> exists, names |-> names]

\* What lies below repo_root besides the *.java entries: repo_root itself,
\* whether it exists, the entries below the UC03 infrastructure subtree
\* (paths relative to it) and the contracts directory.
Environments == {
    \* audit and cache packages, all six contracts
    [repo_root |-> << <<"r">> >>, exists |-> TRUE,
     infra |-> { Dir(<< <<"c","o","m">> >>), Dir(<< <<"c","o","m">>, <<"u","c","0","3">> >>),
                 Dir(<< <<"c","o","m">>, <<"u","c","0","3">>, <<"a","u","d","i","t">> >>),
                 Dir(<< <<"c","o","m">>, <<"u","c","0","3">>, <<"c","a","c","h","e">> >>),
                 Dir(<< <<"c","o","m">>, <<"u","c","0","3">>, <<"m","a","t","c","h","i","n","g">> >>) },
     openapi |-> OpenApi(TRUE, Range(EXPECTED_OPENAPI_FILES))],
    \* an Audit package and a plain file named cache below uc03, audit and
    \* cache directories elsewhere, one contract missing
    [repo_root |-> << <<"r">> >>, exists |-> TRUE,
     infra |-> { Dir(<< <<"u","c","0","3">> >>), Dir(<< <<"u","c","0","3">>, <<"A","u","d","i","t">> >>),
                 PlainFile(<< <<"u","c","0","3">>, <<"c","a","c","h","e">> >>),
                 Dir(<< <<"l","e","g","a","c","y">> >>), Dir(<< <<"l","e","g","a","c","y">>, <<"a","u","d","i","t">> >>),
                 Dir(<< <<"l","e","g","a","c","y">>, <<"c","a","c","h","e">> >>) },
     openapi |-> OpenApi(TRUE, (Range(EXPECTED_OPENAPI_FILES) \ { <<"r","i","s","k","-","c","o","n","t","e","x","t",".","y","a","m","l">> })
                               \cup { <<"r","i","s","k","-","c","o","n","t","e","x","t",".","y","m","l">>, <<"e","x","t","r","a",".","y","a","m","l">> })],
    \* neither the UC03 subtree nor the contracts directory
    [repo_root |-> << <<"r">> >>, exists |-> TRUE,
     infra |-> {}, openapi |-> OpenApi(FALSE, {})],
    \* repo_root does not exist
    [repo_root |-> << <<"m","i","s","s","i","n","g">> >>, exists |-> FALSE,
     infra |-> {}, openapi |-> OpenApi(FALSE, {})] }

\* The trees: an environment and the *.java entries below it.
Trees ==
    {[exists |-> env.exists, files |-> S, infra |-> env.infra, openapi |-> env.openapi] :
        env \in {e \in Environments : e.exists}, S \in FileSets}
    \cup
    {[exists |-> FALSE, files |-> {}, infra |-> {}, openapi |-> OpenApi(FALSE, {})]}

\* ---- single files, one per case of a classifier ----

\* Package declarations that tell the package classifiers apart.
PackageSamples == {
    <<"d","o","m","a","i","n">>,
    <<"d","o","m","a","i","n",".","m","o","d","e","l">>,
    <<"c","o","m",".","s","h","o","p",".","d","o","m","a","i","n">>,
    <<"c","o","m",".","s","h","o","p",".","d","o","m","a","i","n",".","m","o","d","e","l">>,
    <<"c","o","m",".","s","h","o","p",".","m","y","d","o","m","a","i","n",".","m","o","d","e","l">>,
    <<"c","o","m",".","s","h","o","p",".","d","o","m","a","i","n","s">>,
    <<"c","o","m",".","s","h","o","p",".","i","n","f","r","a","s","t","r","u","c","t","u","r","e",".","a","d","a","p","t","e","r">>,
    <<"c","o","m",".","s","h","o","p",".","i","n","f","r","a","s","t","r","u","c","t","u","r","e",".","a","d","a","p","t","e","r",".","o","u","t">>,
    <<"c","o","m",".","s","h","o","p",".","i","n","f","r","a","s","t","r","u","c","t","u","r","e",".","a","d","a","p","t","e","r","s">>,
    <<"c","o","m",".","s","h","o","p",".","i","n","f","r","a","s","t","r","u","c","t","u","r","e",".","a","d","a","p","t","e","r","x",".","o","u","t">>,
    <<"c","o","m",".","s","h","o","p",".","i","n","f","r","a","s","t","r","u","c","t","u","r","e",".","w","e","b",".","a","d","a","p","t","e","r">>,
    <<"i","n","f","r","a","s","t","r","u","c","t","u","r","e",".","a","d","a","p","t","e","r",".","o","u","t">>,
    <<"c","o","m",".","s","h","o","p",".","a","p","p","l","i","c","a","t","i","o","n",".","s","e","r","v","i","c","e">>,
    <<"c","o","m",".","s","h","o","p",".","a","p","p","l","i","c","a","t","i","o","n",".","s","e","r","v","i","c","e",".","i","m","p","l">>,
    <<"c","o","m",".","s","h","o","p",".","a","p","p","l","i","c","a","t","i","o","n",".","s","e","r","v","i","c","e","s">>,
    <<"c","o","m",".","s","h","o","p",".","d","o","m","a","i","n",".","s","e","r","v","i","c","e">>,
    <<"c","o","m",".","s","h","o","p",".","s","e","r","v","i","c","e">> }

\* Paths, relative to repo_root, that tell the path classifiers apart.
PathSamples == {
    << <<"m","a","i","n">>, <<"F","o","o",".","j","a","v","a">> >>,
    << <<"s","r","c">>, <<"t","e","s","t">>, <<"F","o","o",".","j","a","v","a">> >>,
    << <<"T","e","s","t">>, <<"F","o","o",".","j","a","v","a">> >>,
    << <<"m","a","i","n">>, <<"t","e","s","t">>, <<"s","u","b">>, <<"F","o","o",".","j","a","v","a">> >>,
    << <<"m","a","i","n">>, <<"F","o","o","T","e","s","t",".","j","a","v","a">> >>,
    << <<"m","a","i","n">>, <<"L","a","t","e","s","t",".","j","a","v","a">> >>,
    << <<"t","e","s","t","i","n","g">>, <<"F","o","o",".","j","a","v","a">> >>,
    << <<"c","o","n","t","e","s","t">>, <<"F","o","o",".","j","a","v","a">> >> }

SAMPLE_PATH == << <<"m","a","i","n">>, <<"F","o","o",".","j","a","v","a">> >>

SAMPLE_PKG == <<"c","o","m",".","s","h","o","p",".","i","n","f","r","a","s","t","r","u","c","t","u","r","e",".","a","d","a","p","t","e","r",".","o","u","t">>

\* A file of the given path and package that imports from a framework, from
\* java.sql and from java.util.
SampleFile(path, pkg) ==
    JavaFile(path,
        << PackageLine(pkg),
           ImportLine(<<"o","r","g",".","s","p","r","i","n","g","f","r","a","m","e","w","o","r","k",".","F","o","o">>),
           ImportLine(<<"j","a","v","a",".","s","q","l",".","D","a","t","e">>),
           ImportLine(<<"j","a","v","a",".","u","t","i","l",".","L","i","s","t">>),
           ClassLine(get_classname(path)) >>)

SampleFiles ==
    {SampleFile(SAMPLE_PATH, pkg) : pkg \in PackageSamples}
    \cup {SampleFile(path, SAMPLE_PKG) : path \in PathSamples}

\* Where repo_root may be.
SampleRoots == {
    << <<"r">> >>,
    << <<"h","o","m","e">>, <<"t","e","s","t">>, <<"r">> >>,
    << <<"s","r","v">>, <<"u","c","0","3">>, <<"m","a","t","c","h","i","n","g">> >>,
    << <<"s","h","a","r","e","d","-","k","e","r","n","e","l">> >> }

\* What lies below repo_root beside the sample file: audit and cache
\* directories off the uc03 path, five of the six contracts.
SampleEnvironment ==
    [infra |-> { Dir(<< <<"l","e","g","a","c","y">> >>), Dir(<< <<"l","e","g","a","c","y">>, <<"a","u","d","i","t">> >>),
                 Dir(<< <<"l","e","g","a","c","y">>, <<"c","a","c","h","e">> >>) },
     openapi |-> OpenApi(TRUE, Range(EXPECTED_OPENAPI_FILES) \ { <<"r","i","s","k","-","c","o","n","t","e","x","t",".","y","a","m","l">> })]

\* The trees with no *.java entry or one sample file.
SampleTrees ==
    {[exists |-> TRUE, files |-> S, infra |-> SampleEnvironment.infra,
      openapi |-> SampleEnvironment.openapi] :
        S \in {{}} \cup {{f} : f \in SampleFiles}}

(***************************************************************************)
(* download_github_docs.py: requests to the GitHub API                     *)
(***************************************************************************)

\* Python's None, where a string may stand: a header that is absent, an
\* error that is not set.
None == "None"

\* The status codes of the responses.
StatusCodes == {200, 304, 403, 404, 429}

\* r.headers.get("X-RateLimit-Reset"): absent, empty, a time stamp, or
\* text that is not a number.
ResetValues == {None, "", "1700000000", "soon"}

\* r.headers.get("X-RateLimit-Remaining")
RemainingValues == {None, "0", "57"}

\* Whether int(s) returns; it raises ValueError otherwise.
int_returns(s) == s \in {"0", "57", "1700000000"}

\* The truth value of a string that may be None: if reset
truthy(s) == s # None /\ s # ""

Responses == [status_code : StatusCodes, reset : ResetValues, remaining : RemainingValues]

\* No response: r is not bound, or is None in what is returned.
NoResponse == [status_code |-> 0, reset |-> None, remaining |-> None]

\* What a function that has not returned has returned.
NotReturned == <<>>

\* requests.get(url, headers=API_HEADERS, timeout=20) raises a
\* RequestException or returns a response.
HttpOutcomes ==
    {[raises |-> TRUE, r |-> NoResponse]} \cup {[raises |-> FALSE, r |-> resp] : resp \in Responses}

\* The truth value of r: None is false, and a response is true when its
\* status is below 400 (Response.__bool__ is Response.ok).
response_truthy(resp) == resp # NoResponse /\ resp.status_code < 400

(***************************************************************************)
(* MAIN                                                                    *)
(***************************************************************************)

VARIABLES
    repo_root,       \* args.repo_root, as path components
    tree,            \* the file system below repo_root
    pc,              \* the check main() runs next, "write", "done" or "raised"
    all_results,     \* main's all_results: constraint id -> result
    all_violations,  \* main's all_violations
    summary_rows,    \* the rows of rq2_compliance_results.csv
    violation_rows,  \* the rows of rq2_violations_detail.csv
    earlier,         \* the two tables as an earlier run over this root left them
    observed,        \* check -> the tree as that check found it, this run
    changes,         \* how many times the tree has changed
    request_pc,      \* where a call of get_repo_accessible is
    response,        \* safe_request_get's r
    returned,        \* what safe_request_get returned: (r, err)
    accessible       \* what get_repo_accessible returned: (ok, err, meta)

\* The variables of rq2_compliance_check.py and of download_github_docs.py.
check_vars == <<repo_root, tree, pc, all_results, all_violations, summary_rows,
                violation_rows, earlier, observed, changes>>

request_vars == <<request_pc, response, returned, accessible>>

vars == <<check_vars, request_vars>>

\* No call of get_repo_accessible is under way.
RequestIdle ==
    /\ request_pc = "idle"
    /\ response = NoResponse
    /\ returned = NotReturned
    /\ accessible = NotReturned

\* The checks, in the order of main's list.
Checks == <<"check_c1_c2", "check_c3", "check_c4", "check_c5", "check_c6",
            "check_c7", "check_c8", "check_c9", "check_c10">>

\* What follows a check in main's loop.
after(check) ==
    LET i == CHOOSE k \in DOMAIN Checks : Checks[k] = check
    IN  IF i < Len(Checks) THEN Checks[i + 1] ELSE "write"

\* list(Path(root).rglob("*.java")): some enumeration of the entries.
find_java_files(t) == Orderings(t.files)

\* sorted(keys): ascending by string comparison.
RECURSIVE sorted(_)
sorted(keys) ==
    IF keys = {} THEN <<>>
    ELSE LET least == CHOOSE x \in keys :
                 \A y \in keys \ {x} : str_less(IdChars(x), IdChars(y))
         IN  <<least>> \o sorted(keys \ {least})

\* The row main writes to the summary table for one constraint id.
summary_row(cid, r) ==
    [constraint_id |-> cid, constraint |-> r.constraint, method |-> r.method,
     compliant |-> IF r.compliant THEN "yes" ELSE "no", detail |-> r.detail]

NoTables == [written |-> FALSE, summary |-> <<>>, violations |-> <<>>]

Init ==
    /\ \E env \in Environments :
          /\ repo_root = env.repo_root
          /\ \E t \in Trees :
                /\ t.exists = env.exists
                /\ t.infra = env.infra /\ t.openapi = env.openapi
                /\ tree = t
    /\ pc = Checks[1]
    /\ all_results = <<>>
    /\ all_violations = <<>>
    /\ summary_rows = <<>>
    /\ violation_rows = <<>>
    /\ earlier = NoTables
    /\ observed = <<>>
    /\ changes = 0
    /\ RequestIdle

\* A turn of main's loop that forgets all_violations.extend(viols).
RunCheck_without_extend(check, outcome) ==
    /\ pc = check
    /\ observed' = (check :> tree) @@ observed
    /\ IF outcome.raised
       THEN /\ pc' = "raised"
            /\ UNCHANGED all_results
       ELSE /\ pc' = after(check)
            /\ all_results' = outcome.results @@ all_results
    /\ UNCHANGED <<repo_root, tree, all_violations, summary_rows, violation_rows,
                   earlier, changes>>
    /\ UNCHANGED request_vars

\* A turn of main's loop that puts viols before what was collected.
RunCheck_prepending(check, outcome) ==
    /\ pc = check
    /\ observed' = (check :> tree) @@ observed
    /\ IF outcome.raised
       THEN /\ pc' = "raised"
            /\ UNCHANGED <<all_results, all_violations>>
       ELSE /\ pc' = after(check)
            /\ all_results' = outcome.results @@ all_results
            /\ all_violations' = outcome.violations \o all_violations
    /\ UNCHANGED <<repo_root, tree, summary_rows, violation_rows, earlier, changes>>
    /\ UNCHANGED request_vars

\* One turn of main's loop: res, viols = check_fn(repo_root);
\* all_results.update(res); all_violations.extend(viols).
RunCheck(check, outcome) ==
    /\ pc = check
    /\ observed' = (check :> tree) @@ observed
    /\ IF outcome.raised
       THEN /\ pc' = "raised"
            /\ UNCHANGED <<all_results, all_violations>>
       ELSE /\ pc' = after(check)
            /\ all_results' = outcome.results @@ all_results
            /\ all_violations' = all_violations \o outcome.violations
    /\ UNCHANGED <<repo_root, tree, summary_rows, violation_rows, earlier, changes>>
    /\ UNCHANGED request_vars

Check_c1_c2 ==
    \E java_files \in find_java_files(tree) :
        RunCheck("check_c1_c2", check_c1_c2(repo_root, tree, java_files))

Check_c3 ==
    \E java_files \in find_java_files(tree) :
        RunCheck("check_c3", check_c3(repo_root, tree, java_files))

Check_c4 ==
    \E java_files \in find_java_files(tree) :
        RunCheck("check_c4", check_c4(repo_root, tree, java_files))

Check_c5 ==
    \E java_files \in find_java_files(tree) :
        RunCheck("check_c5", check_c5(repo_root, tree, java_files))

Check_c6 ==
    \E java_files \in find_java_files(tree) :
        RunCheck("check_c6", check_c6(repo_root, tree, java_files))

Check_c7 ==
    \E java_files \in find_java_files(tree) :
        RunCheck("check_c7", check_c7(repo_root, tree, java_files))

Check_c8 ==
    \E java_files \in find_java_files(tree) :
        RunCheck("check_c8", check_c8(repo_root, tree, java_files))

Check_c9 ==
    \E java_files \in find_java_files(tree) :
        RunCheck("check_c9", check_c9(repo_root, tree, java_files))

Check_c10 ==
    \E java_files \in find_java_files(tree) :
        RunCheck("check_c10", check_c10(repo_root, tree, java_files))

\* The rest of main: the summary table, one row per key of all_results in
\* sorted order, and the violation table, all_violations as collected.
WriteReports ==
    /\ pc = "write"
    /\ LET ids == sorted(DOMAIN all_results)
       IN  summary_rows' = [i \in DOMAIN ids |-> summary_row(ids[i], all_results[ids[i]])]
    /\ violation_rows' = all_violations
    /\ pc' = "done"
    /\ UNCHANGED <<repo_root, tree, all_results, all_violations, earlier, observed, changes>>
    /\ UNCHANGED request_vars

\* The status the process ends with: main is called at module level and calls
\* neither sys.exit nor exit, so the interpreter ends with 0 when main
\* returns and with 1 when an exception leaves it.
exit_status == IF pc = "raised" THEN 1 ELSE 0

\* The script is run again with the same --repo_root; the tables the run
\* before left are kept for comparison.
Rerun ==
    /\ pc = "done"
    /\ earlier' = [written |-> TRUE, summary |-> summary_rows, violations |-> violation_rows]
    /\ pc' = Checks[1]
    /\ all_results' = <<>>
    /\ all_violations' = <<>>
    /\ observed' = <<>>
    /\ UNCHANGED <<repo_root, tree, summary_rows, violation_rows, changes>>
    /\ UNCHANGED request_vars

\* Between two checks of a run, an entry of the tree is deleted.  (A tree
\* can change in other ways and at other times; this one suffices to tell
\* whether the checks of a run see one tree.)
TreeChanges ==
    /\ pc \in Range(Checks)
    /\ all_results # <<>>
    /\ ~earlier.written
    /\ changes < MaxTreeChanges
    /\ \E e \in tree.files : tree' = [tree EXCEPT !.files = tree.files \ {e}]
    /\ changes' = changes + 1
    /\ UNCHANGED <<repo_root, pc, all_results, all_violations, summary_rows,
                   violation_rows, earlier, observed>>
    /\ UNCHANGED request_vars

Next ==
    \/ Check_c1_c2 \/ Check_c3 \/ Check_c4 \/ Check_c5 \/ Check_c6
    \/ Check_c7 \/ Check_c8 \/ Check_c9 \/ Check_c10
    \/ WriteReports
    \/ Rerun

Spec == Init /\ [][Next]_vars

\* A run over a tree that holds one sample file, below any of the sample roots.
InitSamples ==
    /\ repo_root \in SampleRoots
    /\ tree \in SampleTrees
    /\ pc = Checks[1]
    /\ all_results = <<>>
    /\ all_violations = <<>>
    /\ summary_rows = <<>>
    /\ violation_rows = <<>>
    /\ earlier = NoTables
    /\ observed = <<>>
    /\ changes = 0
    /\ RequestIdle

SpecSamples == InitSamples /\ [][Next]_vars

\* The same program over a tree that changes while it runs.
NextEnv == Next \/ TreeChanges

SpecEnv == Init /\ [][NextEnv]_vars

\* What a check returns over tree t when it finds the entries in the order
\* java_files.
CheckOver(check, t, java_files) ==
    CASE check = "check_c1_c2" -> check_c1_c2(repo_root, t, java_files)
      [] check = "check_c3" -> check_c3(repo_root, t, java_files)
      [] check = "check_c4" -> check_c4(repo_root, t, java_files)
      [] check = "check_c5" -> check_c5(repo_root, t, java_files)
      [] check = "check_c6" -> check_c6(repo_root, t, java_files)
      [] check = "check_c7" -> check_c7(repo_root, t, java_files)
      [] check = "check_c8" -> check_c8(repo_root, t, java_files)
      [] check = "check_c9" -> check_c9(repo_root, t, java_files)
      [] check = "check_c10" -> check_c10(repo_root, t, java_files)

\* ---- the checks in any order ----

\* The *.java entries of the trees the checks are evaluated over in any
\* order; the trees have the audit and cache packages and every contract.
AnyOrderFiles ==
    {e \in Catalogue : e.path \in { << <<"p","a","y">>, <<"O","r","d","e","r",".","j","a","v","a">> >>,
                                    << <<"a","p","p">>, <<"T","r","a","n","s","f","e","r",".","j","a","v","a">> >> }}

\* One check function is called, whichever have been called before it, and
\* what it returns is kept; every entry with a violation so far is hidden
\* from it.
EvaluateCheck_after_reported(check) ==
    /\ pc \in Range(Checks)
    /\ check \notin DOMAIN observed
    /\ observed' = (check :> tree) @@ observed
    /\ LET reported == {e \in tree.files :
                           \E j \in DOMAIN all_violations :
                               all_violations[j].file
                                   = str_path(full_path(repo_root, e.path))}
           rest == [tree EXCEPT !.files = tree.files \ reported]
       IN  \E java_files \in find_java_files(rest) :
               LET outcome == CheckOver(check, rest, java_files)
               IN  IF outcome.raised
                   THEN /\ pc' = "raised"
                        /\ UNCHANGED <<all_results, all_violations>>
                   ELSE /\ pc' = IF DOMAIN observed' = Range(Checks) THEN "write" ELSE pc
                        /\ all_results' = outcome.results @@ all_results
                        /\ all_violations' = all_violations \o outcome.violations
    /\ UNCHANGED <<repo_root, tree, summary_rows, violation_rows, earlier, changes>>
    /\ UNCHANGED request_vars

\* One check function is called, whichever have been called before it, and
\* what it returns is kept: res, viols = check_fn(repo_root).
EvaluateCheck(check) ==
    /\ pc \in Range(Checks)
    /\ check \notin DOMAIN observed
    /\ observed' = (check :> tree) @@ observed
    /\ \E java_files \in find_java_files(tree) :
          LET outcome == CheckOver(check, tree, java_files)
          IN  IF outcome.raised
              THEN /\ pc' = "raised"
                   /\ UNCHANGED <<all_results, all_violations>>
              ELSE /\ pc' = IF DOMAIN observed' = Range(Checks) THEN "write" ELSE pc
                   /\ all_results' = outcome.results @@ all_results
                   /\ all_violations' = all_violations \o outcome.violations
    /\ UNCHANGED <<repo_root, tree, summary_rows, violation_rows, earlier, changes>>
    /\ UNCHANGED request_vars

EvaluateAnyCheck == \E check \in Range(Checks) : EvaluateCheck(check)

InitAnyOrder ==
    /\ \E env \in {e \in Environments :
                       e.exists /\ e.openapi.names = Range(EXPECTED_OPENAPI_FILES)} :
          /\ repo_root = env.repo_root
          /\ \E S \in SUBSET AnyOrderFiles :
                tree = [exists |-> TRUE, files |-> S, infra |-> env.infra,
                        openapi |-> env.openapi]
    /\ pc = Checks[1]
    /\ all_results = <<>>
    /\ all_violations = <<>>
    /\ summary_rows = <<>>
    /\ violation_rows = <<>>
    /\ earlier = NoTables
    /\ observed = <<>>
    /\ changes = 0
    /\ RequestIdle

NextAnyOrder == EvaluateAnyCheck \/ WriteReports

SpecAnyOrder == InitAnyOrder /\ [][NextAnyOrder]_vars

\* ---- download_github_docs.py: get_repo_accessible and safe_request_get ----

\* main's loop calls get_repo_accessible for a repository, which calls
\* safe_request_get.
CallGetRepoAccessible ==
    /\ request_pc \in {"idle", "done"}
    /\ request_pc' = "get"
    /\ response' = NoResponse
    /\ returned' = NotReturned
    /\ accessible' = NotReturned
    /\ UNCHANGED check_vars

\* safe_request_get up to its first return or sleep: the guarded request,
\* the rate-limit test and int(reset).
FirstRequest ==
    /\ request_pc = "get"
    /\ \E outcome \in HttpOutcomes :
          IF outcome.raises
          THEN /\ returned' = <<NoResponse, "request_error">>
               /\ request_pc' = "returned"
               /\ UNCHANGED response
          ELSE /\ response' = outcome.r
               /\ IF outcome.r.status_code \in {403, 429}
                  THEN /\ request_pc' =
                            IF /\ truthy(outcome.r.reset)
                               /\ outcome.r.remaining \in {"0", None}
                               /\ int_returns(outcome.r.reset)
                            THEN "sleep_until_reset"
                            ELSE "sleep_fallback"
                       /\ UNCHANGED returned
                  ELSE /\ returned' = <<outcome.r, None>>
                       /\ request_pc' = "returned"
    /\ UNCHANGED <<accessible, check_vars>>

\* After the sleep until the reset: the request inside the try block, whose
\* exception leads to the fallback sleep.
RetryAfterReset ==
    /\ request_pc = "sleep_until_reset"
    /\ \E outcome \in HttpOutcomes :
          IF outcome.raises
          THEN /\ request_pc' = "sleep_fallback"
               /\ UNCHANGED <<response, returned>>
          ELSE /\ response' = outcome.r
               /\ returned' = <<outcome.r, None>>
               /\ request_pc' = "returned"
    /\ UNCHANGED <<accessible, check_vars>>

\* After the 60 s fallback sleep, in the except branch or the else branch:
\* the request outside any try block, whose exception leaves
\* safe_request_get and get_repo_accessible.
RetryAfterFallback ==
    /\ request_pc = "sleep_fallback"
    /\ \E outcome \in HttpOutcomes :
          IF outcome.raises
          THEN /\ request_pc' = "raised"
               /\ UNCHANGED <<response, returned>>
          ELSE /\ response' = outcome.r
               /\ returned' = <<outcome.r, None>>
               /\ request_pc' = "returned"
    /\ UNCHANGED <<accessible, check_vars>>

\* The rest of get_repo_accessible: r, err = safe_request_get(...) and what
\* it returns from them; r.json() returns or raises.
get_repo_accessible ==
    /\ request_pc = "returned"
    /\ LET r0 == returned[1]
           err == returned[2]
       IN  IF ~response_truthy(r0)
           THEN accessible' = <<FALSE, IF err # None THEN err ELSE "unknown_error", None>>
           ELSE IF r0.status_code # 200
           THEN accessible' = <<FALSE, "http_" \o ToString(r0.status_code), None>>
           ELSE \E meta \in {None, "repo_meta"} : accessible' = <<TRUE, None, meta>>
    /\ request_pc' = "done"
    /\ UNCHANGED <<response, returned, check_vars>>

\* The checks are not run while the repositories are fetched.
InitRequest ==
    /\ repo_root \in {env.repo_root : env \in {e \in Environments : ~e.exists}}
    /\ tree \in {t \in Trees : ~t.exists}
    /\ pc = Checks[1]
    /\ all_results = <<>>
    /\ all_violations = <<>>
    /\ summary_rows = <<>>
    /\ violation_rows = <<>>
    /\ earlier = NoTables
    /\ observed = <<>>
    /\ changes = 0
    /\ RequestIdle

NextRequest ==
    \/ CallGetRepoAccessible
    \/ FirstRequest
    \/ RetryAfterReset
    \/ RetryAfterFallback
    \/ get_repo_accessible

SpecRequest == InitRequest /\ [][NextRequest]_vars
(***************************************************************************)
(* Properties                                                              *)
(***************************************************************************)

\* The position of a constraint id in the declared order C1..C10.
IdIndex(cid) == CHOOSE k \in DOMAIN ConstraintIds : ConstraintIds[k] = cid

\* How many rows of a violation list satisfy P.
CountRows(rows, P(_)) == Cardinality({j \in DOMAIN rows : P(rows[j])})

\* str(jf) of an entry of the tree.
FileOf(entry) == str_path(full_path(repo_root, entry.path))

\* The package and the imports the helpers extract from each entry's text.
Extracted ==
    [entry \in Catalogue \cup SampleFiles |->
        [package |-> get_package(read_file(entry).text),
         imports |-> get_imports(read_file(entry).text)]]

PackageOf(entry) == Extracted[entry].package

ImportsOf(entry) == Extracted[entry].imports

\* Whether an import matches at least one of the patterns.
MatchesAny(patterns, imp) == \E k \in DOMAIN patterns : contains(imp, patterns[k])

\* The entries of tree t whose text the check reads.
EntriesRead(check, t) ==
    {e \in t.files :
        CASE check = "check_c1_c2" -> c2_in_scope(repo_root, e)
          [] check = "check_c5" -> c5_reads(repo_root, e)
          [] check = "check_c7" -> c7_reads(repo_root, e)
          [] check = "check_c8" -> FALSE
          [] check = "check_c9" -> c9_reads(repo_root, e)
          [] OTHER -> TRUE}

\* What a check returns over tree t, for one enumeration of its entries.
CheckOn(check, t) ==
    LET java_files == CHOOSE o \in find_java_files(t) : TRUE
    IN  CASE check = "check_c1_c2" -> check_c1_c2(repo_root, t, java_files)
          [] check = "check_c3" -> check_c3(repo_root, t, java_files)
          [] check = "check_c4" -> check_c4(repo_root, t, java_files)
          [] check = "check_c5" -> check_c5(repo_root, t, java_files)
          [] check = "check_c6" -> check_c6(repo_root, t, java_files)
          [] check = "check_c7" -> check_c7(repo_root, t, java_files)
          [] check = "check_c8" -> check_c8(repo_root, t, java_files)
          [] check = "check_c9" -> check_c9(repo_root, t, java_files)
          [] check = "check_c10" -> check_c10(repo_root, t, java_files)

\* Claim C1: a constraint's verdict is "compliant" exactly when the violation list
\* holds no violation of that constraint: in main's all_results and
\* all_violations at every point of the run, and in the two written tables
\* of a finished run, which has a row for each of C1..C10.
ComplianceMatchesViolations ==
    /\ \A cid \in DOMAIN all_results :
          all_results[cid].compliant =
              (\A j \in DOMAIN all_violations : all_violations[j].constraint_id # cid)
    /\ pc = "done" =>
          /\ {summary_rows[i].constraint_id : i \in DOMAIN summary_rows} = Range(ConstraintIds)
          /\ \A i \in DOMAIN summary_rows :
                (summary_rows[i].compliant = "yes") =
                    (\A j \in DOMAIN violation_rows :
                        violation_rows[j].constraint_id # summary_rows[i].constraint_id)

\* A finished run whose C1 verdict comes from the directory flags (an audit
\* package, no cache package), with a compliant and a violated import rule.
ComplianceMatchesViolationsWitness ==
    /\ pc = "done"
    /\ ~all_results["C1"].compliant
    /\ all_results["C1"].detail.audit_pkg
    /\ all_results["C4"].compliant
    /\ ~all_results["C3"].compliant
    /\ ~all_results["C8"].compliant

\* Claim C2: two runs over an unchanged tree write the same summary table and the
\* same violation table, row for row.
RerunWritesSameTables ==
    (pc = "done" /\ earlier.written) =>
        /\ summary_rows = earlier.summary
        /\ violation_rows = earlier.violations

\* The imports of the entry whose str(path) is file.
ImportsOfFile(file) ==
    IF \E e \in tree.files : FileOf(e) = file
    THEN ImportsOf(CHOOSE e \in tree.files : FileOf(e) = file)
    ELSE <<>>

\* The position in its file of the import a violation row names (the last
\* part of its issue), or 0 for a row that names no import of the file.
ImportOffset(row) ==
    LET imports == ImportsOfFile(row.file)
        imp == row.issue[Len(row.issue)]
        at == IF row.constraint_id \in {"C2", "C3", "C4", "C9", "C10"}
              THEN {k \in DOMAIN imports : imports[k] = imp}
              ELSE {}
    IN  IF at = {} THEN 0
        ELSE CHOOSE k \in at : \A m \in at : k <= m

\* Claim C3: the violation table of a finished run is in canonical order: by
\* constraint id in declared order, then by file path, then by the position
\* of the offending import in its file.
ViolationsInCanonicalOrder ==
    pc = "done" =>
        \A i, j \in DOMAIN violation_rows :
            i < j =>
                LET a == violation_rows[i]
                    b == violation_rows[j]
                IN  \/ IdIndex(a.constraint_id) < IdIndex(b.constraint_id)
                    \/ /\ a.constraint_id = b.constraint_id
                       /\ \/ str_less(a.file, b.file)
                          \/ /\ a.file = b.file
                             /\ ImportOffset(a) <= ImportOffset(b)

\* Claim C4: the summary table of a finished run has one row per constraint, in
\* the declared order C1, C2, ..., C10.
SummaryInDeclaredOrder ==
    pc = "done" =>
        [i \in DOMAIN summary_rows |-> summary_rows[i].constraint_id] = ConstraintIds

\* Claim C5: every read_file call the checks have made returned a string: reading
\* an entry that find_java_files listed never raises.
ReadFileNeverRaises ==
    \A check \in DOMAIN observed :
        \A e \in EntriesRead(check, observed[check]) : ~read_file(e).raised

\* Claim C6: no check raises, and once the checks are through the aggregated
\* results hold exactly the ten ids C1..C10, each with a verdict and a detail.
RunAlwaysCompletes ==
    /\ pc # "raised"
    /\ pc \in {"write", "done"} =>
          /\ DOMAIN all_results = Range(ConstraintIds)
          /\ \A cid \in DOMAIN all_results :
                /\ all_results[cid].compliant \in BOOLEAN
                /\ DOMAIN all_results[cid].detail # {}

\* The violations of the ids in cids among rows, as a set.
ViolationsOf(rows, cids) == {rows[j] : j \in {k \in DOMAIN rows : rows[k].constraint_id \in cids}}

\* Claim C7: the report of a finished run is the report of one tree: there is a
\* tree, among those the checks found, from which every check's verdict,
\* detail and violations follow.
ChecksSeeOneSnapshot ==
    pc = "done" =>
        \E c0 \in DOMAIN observed :
            \A check \in Range(Checks) :
                LET out == CheckOn(check, observed[c0])
                IN  /\ ~out.raised
                    /\ \A cid \in DOMAIN out.results : all_results[cid] = out.results[cid]
                    /\ ViolationsOf(all_violations, DOMAIN out.results)
                           = Range(out.violations)

\* Claim C8: once check_c3 has run, each entry in a domain package has exactly one
\* C3 violation per import entry that matches a forbidden domain pattern,
\* naming that import, none for its other imports, and entries outside
\* domain packages have none; every C3 violation belongs to an entry.
C3OnePerForbiddenImport ==
    "C3" \in DOMAIN all_results =>
        /\ \A e \in tree.files :
              LET imports == ImportsOf(e)
                  forbidden == {k \in DOMAIN imports :
                                   /\ is_domain_package(PackageOf(e))
                                   /\ MatchesAny(DOMAIN_FORBIDDEN_IMPORTS, imports[k])}
                  IsOfEntry(v) == v.constraint_id = "C3" /\ v.file = FileOf(e)
              IN  /\ CountRows(all_violations, IsOfEntry) = Cardinality(forbidden)
                  /\ \A k \in DOMAIN imports :
                        LET NamesImport(v) == IsOfEntry(v) /\ v.issue[2] = imports[k]
                        IN  CountRows(all_violations, NamesImport) =
                                Cardinality({m \in forbidden : imports[m] = imports[k]})
        /\ \A j \in DOMAIN all_violations :
              all_violations[j].constraint_id = "C3" =>
                  \E e \in tree.files : all_violations[j].file = FileOf(e)

\* check_c3 has run over a domain entry with an import that matches two
\* forbidden patterns and was reported once, and an import that matches none.
C3OnePerForbiddenImportWitness ==
    /\ "C3" \in DOMAIN all_results
    /\ \E e \in tree.files :
          LET imports == ImportsOf(e)
              IsOfEntry(v) == v.constraint_id = "C3" /\ v.file = FileOf(e)
          IN  /\ is_domain_package(PackageOf(e))
              /\ \E k \in DOMAIN imports :
                    /\ Cardinality({p \in DOMAIN DOMAIN_FORBIDDEN_IMPORTS :
                           contains(imports[k], DOMAIN_FORBIDDEN_IMPORTS[p])}) >= 2
                    /\ \E j \in DOMAIN all_violations :
                          IsOfEntry(all_violations[j]) /\ all_violations[j].issue[2] = imports[k]
              /\ CountRows(all_violations, IsOfEntry) = 3
    /\ \E e \in tree.files :
          /\ is_domain_package(PackageOf(e))
          /\ ImportsOf(e) # <<>>
          /\ \A k \in DOMAIN ImportsOf(e) :
                ~MatchesAny(DOMAIN_FORBIDDEN_IMPORTS, ImportsOf(e)[k])

\* Claim C9: once check_c4 has run, each entry in an application package has
\* exactly one C4 violation per import entry that holds ".infrastructure.",
\* naming that import, and none otherwise; entries outside application
\* packages have none; every C4 violation belongs to an entry.
C4OnePerInfrastructureImport ==
    "C4" \in DOMAIN all_results =>
        /\ \A e \in tree.files :
              LET imports == ImportsOf(e)
                  forbidden == {k \in DOMAIN imports :
                                   /\ is_application_package(PackageOf(e))
                                   /\ contains(imports[k], <<".","i","n","f","r","a","s","t","r","u","c","t","u","r","e",".">>)}
                  IsOfEntry(v) == v.constraint_id = "C4" /\ v.file = FileOf(e)
              IN  /\ CountRows(all_violations, IsOfEntry) = Cardinality(forbidden)
                  /\ \A k \in DOMAIN imports :
                        LET NamesImport(v) == IsOfEntry(v) /\ v.issue[2] = imports[k]
                        IN  CountRows(all_violations, NamesImport) =
                                Cardinality({m \in forbidden : imports[m] = imports[k]})
        /\ \A j \in DOMAIN all_violations :
              all_violations[j].constraint_id = "C4" =>
                  \E e \in tree.files : all_violations[j].file = FileOf(e)

\* check_c4 has run over an application entry with an infrastructure import
\* (reported once) and other imports (not reported), beside a domain entry
\* that imports from an infrastructure package and has no C4 violation.
C4OnePerInfrastructureImportWitness ==
    /\ "C4" \in DOMAIN all_results
    /\ \E e \in tree.files :
          LET IsOfEntry(v) == v.constraint_id = "C4" /\ v.file = FileOf(e)
          IN  /\ is_application_package(PackageOf(e))
              /\ Len(ImportsOf(e)) >= 2
              /\ CountRows(all_violations, IsOfEntry) = 1
    /\ \E e \in tree.files :
          LET IsOfEntry(v) == v.constraint_id = "C4" /\ v.file = FileOf(e)
          IN  /\ ~is_application_package(PackageOf(e))
              /\ \E k \in DOMAIN ImportsOf(e) : contains(ImportsOf(e)[k], <<".","i","n","f","r","a","s","t","r","u","c","t","u","r","e",".">>)
              /\ CountRows(all_violations, IsOfEntry) = 0

\* The condition under which claim C10 says an entry violates constraint C5,
\* with "adapter package", "test path" and "DTO" as the helpers classify.
C5Violates(e) ==
    LET path == full_path(repo_root, e.path)
        pkg == PackageOf(e)
        classname == get_classname(path)
    IN  /\ is_adapter_package(pkg)
        /\ ~is_test_path(path)
        /\ ~is_dto_package(pkg)
        /\ ~is_dto_like_classname(classname)
        /\ ~any_endswith(classname, ADAPTER_SUFFIXES)

\* Claim C10: once check_c5 has run, an entry has exactly one C5 violation if it
\* is in an adapter package, off the test paths, neither in a DTO package nor
\* DTO-like by class name, and its class name ends in no adapter suffix;
\* every other entry has none, and every C5 violation belongs to an entry.
C5ExactlyOneIffUnsuffixedAdapter ==
    "C5" \in DOMAIN all_results =>
        /\ \A e \in tree.files :
              LET IsOfEntry(v) == v.constraint_id = "C5" /\ v.file = FileOf(e)
              IN  CountRows(all_violations, IsOfEntry) = IF C5Violates(e) THEN 1 ELSE 0
        /\ \A j \in DOMAIN all_violations :
              all_violations[j].constraint_id = "C5" =>
                  \E e \in tree.files : all_violations[j].file = FileOf(e)

\* check_c5 has run over Foo in an adapter package (one violation) beside an
\* adapter-package entry that is exempt (suffix, DTO or test path) and has none.
C5ExactlyOneIffUnsuffixedAdapterWitness ==
    /\ "C5" \in DOMAIN all_results
    /\ \E e \in tree.files :
          /\ C5Violates(e)
          /\ get_classname(e.path) = <<"F","o","o">>
          /\ \E j \in DOMAIN all_violations :
                all_violations[j].constraint_id = "C5" /\ all_violations[j].file = FileOf(e)
    /\ \E e \in tree.files :
          /\ is_adapter_package(PackageOf(e))
          /\ ~C5Violates(e)
          /\ \A j \in DOMAIN all_violations :
                all_violations[j].constraint_id = "C5" => all_violations[j].file # FileOf(e)

\* The class name of an entry, from its file name.
ClassOf(entry) == get_classname(full_path(repo_root, entry.path))

\* Every violation of constraint cid in the list belongs to an entry of the tree.
ViolationsBelongToEntries(cid) ==
    \A j \in DOMAIN all_violations :
        all_violations[j].constraint_id = cid =>
            \E e \in tree.files : all_violations[j].file = FileOf(e)

\* Once check_c6 has run: an entry has exactly one C6 violation, whose message
\* names its class, if its package holds marker and its class name does not
\* end in "Event", and none otherwise, test paths included.
C6OnePerUnsuffixedEventClass(marker) ==
    "C6" \in DOMAIN all_results =>
        /\ \A e \in tree.files :
              LET IsOfEntry(v) == v.constraint_id = "C6" /\ v.file = FileOf(e)
                  violates == /\ contains(PackageOf(e), marker)
                              /\ ~endswith(ClassOf(e), <<"E","v","e","n","t">>)
              IN  /\ CountRows(all_violations, IsOfEntry) = IF violates THEN 1 ELSE 0
                  /\ \A j \in DOMAIN all_violations :
                        IsOfEntry(all_violations[j]) => all_violations[j].issue[2] = ClassOf(e)
        /\ ViolationsBelongToEntries("C6")

\* Claim C11, as stated: an entry has exactly one C6 violation, naming its class,
\* exactly when its package contains "domain.event" (hence also
\* "domain.events") and its class name does not end in "Event".
C6WherePackageHoldsDomainEvent == C6OnePerUnsuffixedEventClass(<<"d","o","m","a","i","n",".","e","v","e","n","t">>)

\* Claim C11: an entry has exactly one C6 violation, naming its class, exactly
\* when its package contains ".domain.event", the leading dot included (hence
\* also ".domain.events"), and its class name does not end in "Event"; test
\* paths are not exempt.
C6WherePackageHoldsDotDomainEvent == C6OnePerUnsuffixedEventClass(<<".","d","o","m","a","i","n",".","e","v","e","n","t">>)

\* check_c6 has run over OrderCreated, on a test path in a package ending in
\* ".domain.event" (one violation), beside a class not named ...Event whose
\* package begins with "domain.event" (no violation).
C6WherePackageHoldsDotDomainEventWitness ==
    /\ "C6" \in DOMAIN all_results
    /\ \E e \in tree.files :
          /\ is_test_path(full_path(repo_root, e.path))
          /\ endswith(PackageOf(e), <<".","d","o","m","a","i","n",".","e","v","e","n","t">>)
          /\ \E j \in DOMAIN all_violations :
                /\ all_violations[j].constraint_id = "C6"
                /\ all_violations[j].file = FileOf(e)
                /\ all_violations[j].issue[2] = <<"O","r","d","e","r","C","r","e","a","t","e","d">>
    /\ \E e \in tree.files :
          /\ startswith(PackageOf(e), <<"d","o","m","a","i","n",".","e","v","e","n","t">>)
          /\ ~endswith(ClassOf(e), <<"E","v","e","n","t">>)
          /\ \A j \in DOMAIN all_violations :
                all_violations[j].constraint_id = "C6" => all_violations[j].file # FileOf(e)

\* The condition under which claim C12 says an entry violates constraint C7,
\* with "application-service package", "test path" and "excluded suffix" as
\* the helpers classify.
C7Violates(e) ==
    /\ is_application_service_package(PackageOf(e))
    /\ ~is_test_path(full_path(repo_root, e.path))
    /\ ~is_excluded_c7_classname(ClassOf(e))
    /\ ~any_endswith(ClassOf(e), SERVICE_SUFFIXES)

\* Claim C12: once check_c7 has run, an entry has exactly one C7 violation if it is
\* in an application-service package, off the test paths, and its class name
\* ends neither in an excluded suffix nor in a service suffix; every other
\* entry, those in domain-service packages included, has none.
C7ExactlyOneIffUnsuffixedApplicationService ==
    "C7" \in DOMAIN all_results =>
        /\ \A e \in tree.files :
              LET IsOfEntry(v) == v.constraint_id = "C7" /\ v.file = FileOf(e)
              IN  CountRows(all_violations, IsOfEntry) = IF C7Violates(e) THEN 1 ELSE 0
        /\ ViolationsBelongToEntries("C7")

\* check_c7 has run over Transfer in an application-service package (one
\* violation) beside a class of a domain-service package that ends in no
\* service suffix and has none.
C7ExactlyOneIffUnsuffixedApplicationServiceWitness ==
    /\ "C7" \in DOMAIN all_results
    /\ \E e \in tree.files :
          /\ C7Violates(e)
          /\ \E j \in DOMAIN all_violations :
                /\ all_violations[j].constraint_id = "C7"
                /\ all_violations[j].file = FileOf(e)
                /\ all_violations[j].issue[2] = <<"T","r","a","n","s","f","e","r">>
    /\ \E e \in tree.files :
          /\ contains(PackageOf(e), <<".","d","o","m","a","i","n",".","s","e","r","v","i","c","e">>)
          /\ ~is_test_path(full_path(repo_root, e.path))
          /\ ~is_excluded_c7_classname(ClassOf(e))
          /\ ~any_endswith(ClassOf(e), SERVICE_SUFFIXES)
          /\ \A j \in DOMAIN all_violations :
                all_violations[j].constraint_id = "C7" => all_violations[j].file # FileOf(e)

\* The expected contract files that are in the contracts directory.
ExpectedPresent ==
    {n \in Range(EXPECTED_OPENAPI_FILES) : tree.openapi.exists /\ n \in tree.openapi.names}

IsC8(v) == v.constraint_id = "C8"

\* Claim C13: once check_c8 has run, there is exactly one C8 violation per
\* expected contract file that is absent, naming that file, and none for a
\* file that is present; without the contracts directory there are six; the
\* violations and the expected files present always add up to six.
C8OnePerMissingContract ==
    "C8" \in DOMAIN all_results =>
        /\ \A n \in Range(EXPECTED_OPENAPI_FILES) :
              LET NamesFile(v) == IsC8(v) /\ v.issue[2] = n
              IN  CountRows(all_violations, NamesFile) = IF n \in ExpectedPresent THEN 0 ELSE 1
        /\ ~tree.openapi.exists => CountRows(all_violations, IsC8) = 6
        /\ CountRows(all_violations, IsC8) + Cardinality(ExpectedPresent) = 6

\* check_c8 has run over a contracts directory that holds five of the six
\* expected files beside other files, and reported the missing one.
C8OnePerMissingContractWitness ==
    /\ "C8" \in DOMAIN all_results
    /\ tree.openapi.exists
    /\ Cardinality(ExpectedPresent) = 5
    /\ tree.openapi.names \ Range(EXPECTED_OPENAPI_FILES) # {}
    /\ \E j \in DOMAIN all_violations :
          IsC8(all_violations[j]) /\ all_violations[j].issue[2] = <<"r","i","s","k","-","c","o","n","t","e","x","t",".","y","a","m","l">>

\* Once check_c9 has run: an entry on a shared-kernel path has exactly one C9
\* violation per import entry that Matches, naming that import, and none for
\* its other imports; entries off the shared kernel have none.
C9OnePerImport(Matches(_)) ==
    "C9" \in DOMAIN all_results =>
        /\ \A e \in tree.files :
              LET imports == ImportsOf(e)
                  forbidden == {k \in DOMAIN imports :
                                   /\ is_shared_kernel(full_path(repo_root, e.path))
                                   /\ Matches(imports[k])}
                  IsOfEntry(v) == v.constraint_id = "C9" /\ v.file = FileOf(e)
              IN  /\ CountRows(all_violations, IsOfEntry) = Cardinality(forbidden)
                  /\ \A k \in DOMAIN imports :
                        LET NamesImport(v) == IsOfEntry(v) /\ v.issue[2] = imports[k]
                        IN  CountRows(all_violations, NamesImport) =
                                Cardinality({m \in forbidden : imports[m] = imports[k]})
        /\ ViolationsBelongToEntries("C9")

MatchesSharedKernelForbidden(imp) == MatchesAny(SHARED_KERNEL_FORBIDDEN, imp)

\* Claim C14, as stated: a shared-kernel entry has exactly one C9 violation per
\* import entry that matches the persistence expression of constraint C2
\* (persistence, jpa, hibernate, jdbc or sql, in any case), and none otherwise.
C9PerImportMatchingC2Expression == C9OnePerImport(c2_matches)

\* Claim C14: a shared-kernel entry has exactly one C9 violation per import entry
\* that holds one of the shared-kernel patterns (jakarta.persistence.,
\* javax.persistence., org.springframework.data., org.hibernate., java.sql.),
\* naming that import, and none for its other imports; entries off the
\* shared kernel have none.
C9PerImportMatchingSharedKernelPattern == C9OnePerImport(MatchesSharedKernelForbidden)

\* check_c9 has run over a shared-kernel entry with an import it reports that
\* the C2 expression does not match and an import it passes that the C2
\* expression matches, beside an entry off the shared kernel that imports
\* from java.sql and has no C9 violation.
C9PerImportMatchingSharedKernelPatternWitness ==
    /\ "C9" \in DOMAIN all_results
    /\ \E e \in tree.files :
          LET imports == ImportsOf(e)
              Reported(imp) == \E j \in DOMAIN all_violations :
                                  /\ all_violations[j].constraint_id = "C9"
                                  /\ all_violations[j].file = FileOf(e)
                                  /\ all_violations[j].issue[2] = imp
          IN  /\ is_shared_kernel(full_path(repo_root, e.path))
              /\ \E k \in DOMAIN imports : Reported(imports[k]) /\ ~c2_matches(imports[k])
              /\ \E k \in DOMAIN imports : ~Reported(imports[k]) /\ c2_matches(imports[k])
    /\ \E e \in tree.files :
          /\ ~is_shared_kernel(full_path(repo_root, e.path))
          /\ \E k \in DOMAIN ImportsOf(e) : MatchesSharedKernelForbidden(ImportsOf(e)[k])
          /\ \A j \in DOMAIN all_violations :
                all_violations[j].constraint_id = "C9" => all_violations[j].file # FileOf(e)

\* Claim C15: once check_c10 has run, an entry whose package resolves to a context
\* has exactly one C10 violation per import entry that resolves to another
\* context and holds neither ".port." nor ".api.", naming that context and
\* that import, and none for its other imports; an entry whose package
\* resolves to no context has none.
C10OnePerCrossContextImport ==
    "C10" \in DOMAIN all_results =>
        /\ \A e \in tree.files :
              LET imports == ImportsOf(e)
                  own == own_ctx(PackageOf(e))
                  forbidden == {k \in DOMAIN imports :
                                   /\ own # 0
                                   /\ own_ctx(imports[k]) \notin {0, own}
                                   /\ ~contains(imports[k], <<".","p","o","r","t",".">>)
                                   /\ ~contains(imports[k], <<".","a","p","i",".">>)}
                  IsOfEntry(v) == v.constraint_id = "C10" /\ v.file = FileOf(e)
              IN  /\ CountRows(all_violations, IsOfEntry) = Cardinality(forbidden)
                  /\ \A k \in DOMAIN imports :
                        LET NamesImport(v) ==
                                /\ IsOfEntry(v)
                                /\ v.issue[4] = imports[k]
                                /\ v.issue[2] = ctx_map[own_ctx(imports[k])].ctx
                        IN  CountRows(all_violations, NamesImport) =
                                Cardinality({m \in forbidden : imports[m] = imports[k]})
        /\ ViolationsBelongToEntries("C10")

\* check_c10 has run over an entry of one context with an import from another
\* context that is reported and an import from another context's port
\* package that is not, beside an entry without a package that imports from
\* a context and has no C10 violation.
C10OnePerCrossContextImportWitness ==
    /\ "C10" \in DOMAIN all_results
    /\ \E e \in tree.files :
          LET imports == ImportsOf(e)
              own == own_ctx(PackageOf(e))
              Reported(imp) == \E j \in DOMAIN all_violations :
                                  /\ all_violations[j].constraint_id = "C10"
                                  /\ all_violations[j].file = FileOf(e)
                                  /\ all_violations[j].issue[4] = imp
          IN  /\ own # 0
              /\ \E k \in DOMAIN imports :
                    own_ctx(imports[k]) \notin {0, own} /\ Reported(imports[k])
              /\ \E k \in DOMAIN imports :
                    /\ own_ctx(imports[k]) \notin {0, own}
                    /\ contains(imports[k], <<".","p","o","r","t",".">>)
                    /\ ~Reported(imports[k])
    /\ \E e \in tree.files :
          /\ e.kind = "file"
          /\ own_ctx(PackageOf(e)) = 0
          /\ \E k \in DOMAIN ImportsOf(e) : own_ctx(ImportsOf(e)[k]) # 0
          /\ \A j \in DOMAIN all_violations :
                all_violations[j].constraint_id = "C10" => all_violations[j].file # FileOf(e)

IsC1(v) == v.constraint_id = "C1"

\* Once check_c1_c2 has run: C1 is compliant exactly when both directories are
\* there, it has one violation when it is not compliant and none when it is.
C1CompliantIff(audit_dir, cache_dir) ==
    "C1" \in DOMAIN all_results =>
        /\ all_results["C1"].compliant = (audit_dir /\ cache_dir)
        /\ CountRows(all_violations, IsC1) = IF audit_dir /\ cache_dir THEN 0 ELSE 1

\* The UC03 infrastructure subtree holds a directory named exactly name.
DirLiterallyNamed(name) ==
    \E d \in tree.infra : d.is_dir /\ d.path[Len(d.path)] = name

\* The UC03 infrastructure subtree holds a directory whose name is name in
\* any case and whose path, repo_root included, has a component "uc03" in any
\* case.
Uc03DirNamed(name) ==
    \E d \in tree.infra :
        LET parts == full_path(repo_root, UC03_INFRA_PARTS \o d.path)
        IN  /\ d.is_dir
            /\ lower(d.path[Len(d.path)]) = name
            /\ \E i \in DOMAIN parts : lower(parts[i]) = <<"u","c","0","3">>

\* Claim C16, as stated: C1 is compliant exactly when the subtree holds a
\* directory literally named audit and one literally named cache; otherwise
\* it has exactly one violation, and never more than one.
C1CompliantIffLiteralDirectories ==
    C1CompliantIff(DirLiterallyNamed(<<"a","u","d","i","t">>), DirLiterallyNamed(<<"c","a","c","h","e">>))

\* Claim C16: C1 is compliant exactly when the subtree holds a directory named
\* audit and one named cache, names compared without regard to case, each on
\* a path with a component uc03; otherwise (the subtree missing included) it
\* is non-compliant with exactly one violation, and never more than one.
C1CompliantIffUc03Directories ==
    C1CompliantIff(Uc03DirNamed(<<"a","u","d","i","t">>), Uc03DirNamed(<<"c","a","c","h","e">>))

\* check_c1_c2 has run over a subtree with directories audit and cache off
\* the uc03 path, a directory uc03/Audit and a plain file uc03/cache: C1 is
\* not compliant, with one violation.
C1CompliantIffUc03DirectoriesWitness ==
    /\ "C1" \in DOMAIN all_results
    /\ DirLiterallyNamed(<<"a","u","d","i","t">>) /\ DirLiterallyNamed(<<"c","a","c","h","e">>)
    /\ Uc03DirNamed(<<"a","u","d","i","t">>) /\ DirLiterallyNamed(<<"A","u","d","i","t">>)
    /\ ~Uc03DirNamed(<<"c","a","c","h","e">>)
    /\ ~all_results["C1"].compliant
    /\ CountRows(all_violations, IsC1) = 1

\* The scope claim C17 gives constraint C2: the lower-cased path of the entry
\* holds the marker "uc03" and has a segment named "matching".
HasMatchingSegment(e) ==
    LET path == full_path(repo_root, e.path)
    IN  /\ contains(lower(str_path(path)), <<"u","c","0","3">>)
        /\ \E i \in DOMAIN path : lower(path[i]) = <<"m","a","t","c","h","i","n","g">>

\* Claim C17: once check_c1_c2 has run, an entry whose path holds the marker uc03
\* and a segment named matching has exactly one C2 violation per import entry
\* that the persistence expression matches, and every other entry has none.
C2ScopeIsMatchingSegment ==
    "C2" \in DOMAIN all_results =>
        /\ \A e \in tree.files :
              LET imports == ImportsOf(e)
                  forbidden == {k \in DOMAIN imports :
                                   HasMatchingSegment(e) /\ c2_matches(imports[k])}
                  IsOfEntry(v) == v.constraint_id = "C2" /\ v.file = FileOf(e)
              IN  CountRows(all_violations, IsOfEntry) = Cardinality(forbidden)
        /\ ViolationsBelongToEntries("C2")

PackageScopedIds == {"C3", "C4", "C5", "C6", "C7", "C10"}

\* Claim C18: every package predicate is false of the empty package, and an entry
\* whose text declares no package has no C3, C4, C5, C6, C7 or C10 violation,
\* whatever its imports and its class name.
EmptyPackageIsOutOfScope ==
    /\ ~is_domain_package(<<>>)
    /\ ~is_application_package(<<>>)
    /\ ~is_application_service_package(<<>>)
    /\ ~is_adapter_package(<<>>)
    /\ ~is_domain_event_package(<<>>)
    /\ ~is_service_package(<<>>)
    /\ ~is_dto_package(<<>>)
    /\ \A e \in tree.files :
          (e.kind = "file" /\ PackageOf(e) = <<>>) =>
              \A j \in DOMAIN all_violations :
                  all_violations[j].file = FileOf(e) =>
                      all_violations[j].constraint_id \notin PackageScopedIds

\* All ten checks have run over a tree with an entry that declares no package
\* and imports from javax.persistence, from an infrastructure package and
\* from a bounded context; the entry has C2 violations and no other.
EmptyPackageIsOutOfScopeWitness ==
    /\ pc = "done"
    /\ \E e \in tree.files :
          LET imports == ImportsOf(e)
          IN  /\ e.kind = "file"
              /\ PackageOf(e) = <<>>
              /\ \E k \in DOMAIN imports : MatchesAny(DOMAIN_FORBIDDEN_IMPORTS, imports[k])
              /\ \E k \in DOMAIN imports : contains(imports[k], <<".","i","n","f","r","a","s","t","r","u","c","t","u","r","e",".">>)
              /\ \E k \in DOMAIN imports : own_ctx(imports[k]) # 0
              /\ ~any_endswith(ClassOf(e), SERVICE_SUFFIXES \o ADAPTER_SUFFIXES)
              /\ \E j \in DOMAIN all_violations :
                    all_violations[j].file = FileOf(e) /\ all_violations[j].constraint_id = "C2"

\* The rules that read the entries one by one, each with the check that
\* evaluates it.
PerFileRules ==
    [C2 |-> "check_c1_c2", C3 |-> "check_c3", C4 |-> "check_c4", C5 |-> "check_c5",
     C6 |-> "check_c6", C7 |-> "check_c7", C9 |-> "check_c9", C10 |-> "check_c10"]

\* Whether an entry is in the scope of a per-file rule.
InRuleScope(cid, e) ==
    LET path == full_path(repo_root, e.path)
        pkg == PackageOf(e)
    IN  CASE cid = "C2" -> c2_in_scope(repo_root, e)
          [] cid = "C3" -> is_domain_package(pkg)
          [] cid = "C4" -> is_application_package(pkg)
          [] cid = "C5" -> ~is_test_path(path) /\ is_adapter_package(pkg)
          [] cid = "C6" -> is_domain_event_package(pkg)
          [] cid = "C7" -> ~is_test_path(path) /\ is_application_service_package(pkg)
          [] cid = "C9" -> is_shared_kernel(path)
          [] cid = "C10" -> own_ctx(pkg) # 0

\* The detail a rule gives over the tree without its *.java entries, where
\* the rule is inapplicable.
DetailWhenInapplicable(cid) ==
    CheckOn(PerFileRules[cid], [tree EXCEPT !.files = {}]).results[cid].detail

\* Claim C19: when entries were in the scope of a per-file rule and all passed,
\* the detail of its result differs from the detail the rule gives over a
\* tree in which no entry is in its scope.
DetailTellsPassedFromInapplicable ==
    \A cid \in DOMAIN PerFileRules \cap DOMAIN all_results :
        ((\E e \in tree.files : InRuleScope(cid, e)) /\ all_results[cid].compliant) =>
            all_results[cid].detail # DetailWhenInapplicable(cid)

\* Claim C20: a run in which main returned ends with a status other than 0
\* exactly when repo_root does not exist, however many violations it found.
\* (Runs that an exception ends are the matter of claim C5.)
ExitStatusTellsMissingRoot ==
    pc = "done" => ((exit_status # 0) <=> ~tree.exists)

\* The segments of a dotted name: s.split(".").
RECURSIVE SegmentsOf(_)
SegmentsOf(s) ==
    IF \A i \in DOMAIN s : s[i] # "."
    THEN <<s>>
    ELSE LET dot == CHOOSE i \in DOMAIN s : s[i] = "." /\ \A j \in 1..(i - 1) : s[j] # "."
         IN  <<SubSeq(s, 1, dot - 1)>> \o SegmentsOf(SubSeq(s, dot + 1, Len(s)))

\* Whether an entry has a violation of constraint cid.
IsReported(cid, e) ==
    \E j \in DOMAIN all_violations :
        all_violations[j].constraint_id = cid /\ all_violations[j].file = FileOf(e)

\* Once check_c3 has run: is_domain_package is true of the package of an
\* entry exactly when one of its segments from position first on is
\* "domain", and check_c3 reports only entries of such packages.
DomainPackageIffSegmentFrom(first) ==
    "C3" \in DOMAIN all_results =>
        \A e \in tree.files :
            LET segments == SegmentsOf(PackageOf(e))
                has_domain == \E i \in first..Len(segments) : segments[i] = <<"d","o","m","a","i","n">>
            IN  /\ is_domain_package(PackageOf(e)) = has_domain
                /\ IsReported("C3", e) => has_domain

\* Claim C21, as stated: is_domain_package(pkg) is true exactly when a
\* dot-separated segment of pkg is "domain", the first or only one included.
DomainPackageIffAnySegment == DomainPackageIffSegmentFrom(1)

\* Claim C21: is_domain_package(pkg) is true exactly when a dot-separated segment
\* of pkg other than the first is "domain", and false of every other
\* package.
DomainPackageIffLaterSegment == DomainPackageIffSegmentFrom(2)

\* check_c3 has run over a file whose package has "domain" as its first
\* segment only and that imports from a forbidden framework: it is not
\* reported.
DomainPackageIffLaterSegmentWitness ==
    /\ "C3" \in DOMAIN all_results
    /\ \E e \in tree.files :
          LET segments == SegmentsOf(PackageOf(e))
          IN  /\ segments[1] = <<"d","o","m","a","i","n">>
              /\ Len(segments) > 1
              /\ \E k \in DOMAIN ImportsOf(e) :
                    MatchesAny(DOMAIN_FORBIDDEN_IMPORTS, ImportsOf(e)[k])
              /\ ~is_domain_package(PackageOf(e))
              /\ ~IsReported("C3", e)

\* Claim C22: is_adapter_package(pkg) is true exactly when pkg has the two
\* consecutive segments "infrastructure" and "adapter", whole; a package in
\* which "adapter" only begins a longer segment is not an adapter package,
\* and check_c5, once it has run, has reported no entry of such a package.
AdapterPackageIffWholeSegments ==
    "C5" \in DOMAIN all_results =>
        \A e \in tree.files :
            LET segments == SegmentsOf(PackageOf(e))
                whole == \E i \in 1..(Len(segments) - 1) :
                            segments[i] = <<"i","n","f","r","a","s","t","r","u","c","t","u","r","e">> /\ segments[i + 1] = <<"a","d","a","p","t","e","r">>
            IN  /\ is_adapter_package(PackageOf(e)) = whole
                /\ IsReported("C5", e) => whole

\* Once check_c5 has run: is_test_path is true of the path of an entry
\* exactly when one of its components (the last one, the file name, only if
\* up_to_name) is "test" in any case, or by_name holds and the lower-cased
\* file name ends in "test.java".
TestPathIff(by_name, up_to_name) ==
    "C5" \in DOMAIN all_results =>
        \A e \in tree.files :
            LET path == full_path(repo_root, e.path)
                last == IF up_to_name THEN Len(path) ELSE Len(path) - 1
            IN  is_test_path(path) =
                    (\/ \E i \in 1..last : lower(path[i]) = <<"t","e","s","t">>
                     \/ by_name /\ endswith(lower(path[Len(path)]), <<"t","e","s","t",".","j","a","v","a">>))

\* Claim C23, as stated: is_test_path(path) is true exactly when a segment of the
\* path is "test" in any case, whatever the file's own name and package.
TestPathIffTestSegment == TestPathIff(FALSE, TRUE)

\* Claim C23: is_test_path(path) is true exactly when a directory component of
\* the absolute path is "test" in any case or the lower-cased file name ends
\* in "test.java"; it does not depend on the file's package.
TestPathIffTestDirectoryOrName == TestPathIff(TRUE, FALSE)

\* check_c5 has run over an adapter-package file named FooTest.java that is
\* below no test directory: it counts as a test path and is not reported.
TestPathIffTestDirectoryOrNameWitness ==
    /\ "C5" \in DOMAIN all_results
    /\ \E e \in tree.files :
          LET path == full_path(repo_root, e.path)
          IN  /\ \A i \in DOMAIN path : lower(path[i]) # <<"t","e","s","t">>
              /\ endswith(path[Len(path)], <<"T","e","s","t",".","j","a","v","a">>)
              /\ is_test_path(path)
              /\ is_adapter_package(PackageOf(e))
              /\ ~any_endswith(ClassOf(e), ADAPTER_SUFFIXES)
              /\ ~IsReported("C5", e)


\* The rows of a violation list that carry one of the ids in cids, in order.
RowsOf(rows, cids) == SelectSeq(rows, LAMBDA v : v.constraint_id \in cids)

\* The ids a check decides.
IdsOf(check) ==
    CASE check = "check_c1_c2" -> {"C1", "C2"}
      [] check = "check_c3" -> {"C3"}
      [] check = "check_c4" -> {"C4"}
      [] check = "check_c5" -> {"C5"}
      [] check = "check_c6" -> {"C6"}
      [] check = "check_c7" -> {"C7"}
      [] check = "check_c8" -> {"C8"}
      [] check = "check_c9" -> {"C9"}
      [] check = "check_c10" -> {"C10"}

\* The sum of the numbers of rows of each id among the first n of C1..C10.
RECURSIVE SumOfCounts(_, _)
SumOfCounts(rows, n) ==
    IF n = 0 THEN 0
    ELSE SumOfCounts(rows, n - 1) + Len(RowsOf(rows, {ConstraintIds[n]}))

\* Claim C24: all_violations is the concatenation of the checks' violation lists
\* in the order C1, C2, ..., C10: the rows of each check that has run are the
\* list that check returned, in its order; no row of a later constraint
\* precedes a row of an earlier one; and the number of rows is the sum of the
\* numbers of rows of each constraint.
ViolationsAreConcatenation ==
    /\ \A check \in Range(Checks) :
          IdsOf(check) \subseteq DOMAIN all_results =>
              \E java_files \in find_java_files(tree) :
                  LET out == CheckOver(check, tree, java_files)
                  IN  /\ ~out.raised
                      /\ RowsOf(all_violations, IdsOf(check)) = out.violations
    /\ \A i, j \in DOMAIN all_violations :
          i < j => IdIndex(all_violations[i].constraint_id)
                       <= IdIndex(all_violations[j].constraint_id)
    /\ Len(all_violations) = SumOfCounts(all_violations, Len(ConstraintIds))

\* A finished run with violations of five constraints or more, one of them
\* with several violations, one of which is not the last of the list.
ViolationsAreConcatenationWitness ==
    /\ pc = "done"
    /\ Cardinality({all_violations[j].constraint_id : j \in DOMAIN all_violations}) >= 5
    /\ \E i, j \in DOMAIN all_violations :
          /\ i < j /\ j < Len(all_violations)
          /\ all_violations[i].constraint_id = all_violations[j].constraint_id
          /\ all_violations[i] # all_violations[j]

RECURSIVE DeclaredImports(_)
DeclaredImports(lines) ==
    IF lines = <<>> THEN <<>>
    ELSE (IF \E name \in {lines[1][k] : k \in DOMAIN lines[1]} : lines[1] = ImportLine(name)
          THEN <<lines[1][3]>> ELSE <<>>)
         \o DeclaredImports(Tail(lines))

\* The imports that the rows of constraint cid for an entry name, in the
\* order of the rows.
ImportsReported(cid, e) ==
    LET rows == SelectSeq(all_violations,
                          LAMBDA v : v.constraint_id = cid /\ v.file = FileOf(e))
    IN  [i \in DOMAIN rows |-> rows[i].issue[Len(rows[i].issue)]]

C7WideningOnlyAdds ==
    "C7" \in DOMAIN all_results =>
        /\ \A e \in tree.files :
              /\ is_application_service_package(PackageOf(e)) => is_service_package(PackageOf(e))
              /\ Range(c7_file_violations_in(TRUE, repo_root, e))
                     \subseteq Range(c7_file_violations_in(FALSE, repo_root, e))
        /\ C7_ENFORCE_ONLY_APPLICATION_SERVICES =>
              \A j \in DOMAIN all_violations :
                  all_violations[j].constraint_id = "C7" =>
                      \E e \in tree.files :
                          all_violations[j] \in Range(c7_file_violations_in(FALSE, repo_root, e))

\* check_c7 has reported a class of an application-service package whose
\* name does not end in ".service".
C7WideningOnlyAddsWitness ==
    /\ "C7" \in DOMAIN all_results
    /\ \E e \in tree.files :
          /\ is_application_service_package(PackageOf(e))
          /\ ~endswith(PackageOf(e), <<".","s","e","r","v","i","c","e">>)
          /\ IsReported("C7", e)
          /\ c7_file_violations_in(FALSE, repo_root, e) # <<>>

\* What a check returns over tree t below the root given.
CheckAt(check, root, t) ==
    LET java_files == CHOOSE o \in find_java_files(t) : TRUE
    IN  CASE check = "check_c1_c2" -> check_c1_c2(root, t, java_files)
          [] check = "check_c3" -> check_c3(root, t, java_files)
          [] check = "check_c4" -> check_c4(root, t, java_files)
          [] check = "check_c5" -> check_c5(root, t, java_files)
          [] check = "check_c6" -> check_c6(root, t, java_files)
          [] check = "check_c7" -> check_c7(root, t, java_files)
          [] check = "check_c8" -> check_c8(root, t, java_files)
          [] check = "check_c9" -> check_c9(root, t, java_files)
          [] check = "check_c10" -> check_c10(root, t, java_files)

\* A root whose path holds none of the words the classifiers look for.
PLAIN_ROOT == << <<"r">> >>

\* Claim C28: the verdicts depend on the tree below repo_root only: each check
\* that has run has, for each of its constraints, the verdict and the number
\* of violations it has over the same tree below a root whose path holds
\* none of test, uc03, matching, shared-kernel or common-domain.
VerdictsIndependentOfRoot ==
    \A check \in Range(Checks) :
        IdsOf(check) \subseteq DOMAIN all_results =>
            LET plain == CheckAt(check, PLAIN_ROOT, tree)
            IN  /\ ~plain.raised
                /\ \A cid \in IdsOf(check) :
                      /\ all_results[cid].compliant = plain.results[cid].compliant
                      /\ Len(RowsOf(all_violations, {cid}))
                             = Len(RowsOf(plain.violations, {cid}))

\* Claim C29: with the built-in ctx_map, once check_c10 has run: one import entry
\* yields at most one C10 violation, whichever context the file is of; an
\* import that starts with a prefix of the file's own context yields none;
\* and no entry has more C10 violations than import entries.
ImportYieldsAtMostOneC10 ==
    "C10" \in DOMAIN all_results =>
        \A e \in tree.files :
            LET imports == ImportsOf(e)
                own == own_ctx(PackageOf(e))
                reported == ImportsReported("C10", e)
            IN  /\ Len(reported) <= Len(imports)
                /\ \A k \in DOMAIN imports :
                      /\ \A ctx \in DOMAIN ctx_map :
                            Len(c10_import_violations(FileOf(e), ctx, imports[k])) <= 1
                      /\ Cardinality({i \in DOMAIN reported : reported[i] = imports[k]})
                             <= Cardinality({m \in DOMAIN imports : imports[m] = imports[k]})
                      /\ (own # 0 /\ any_startswith(imports[k], ctx_map[own].prefixes)) =>
                             \A i \in DOMAIN reported : reported[i] # imports[k]

\* check_c10 has run over an entry that imports from its own context, without
\* a violation, and from another context, with one.
ImportYieldsAtMostOneC10Witness ==
    /\ "C10" \in DOMAIN all_results
    /\ \E e \in tree.files :
          LET imports == ImportsOf(e)
              own == own_ctx(PackageOf(e))
              reported == ImportsReported("C10", e)
          IN  /\ own # 0
              /\ \E k \in DOMAIN imports :
                    /\ any_startswith(imports[k], ctx_map[own].prefixes)
                    /\ \A i \in DOMAIN reported : reported[i] # imports[k]
              /\ \E k \in DOMAIN imports :
                    /\ own_ctx(imports[k]) \notin {0, own}
                    /\ Cardinality({i \in DOMAIN reported : reported[i] = imports[k]}) = 1

\* Claim C30: safe_request_get never raises: whatever the requests do, no
\* exception leaves it, and what it returns is a response with no error or
\* no response with an error.
SafeRequestGetNeverRaises ==
    /\ request_pc # "raised"
    /\ returned # NotReturned =>
          \/ returned[1] # NoResponse /\ returned[2] = None
          \/ returned[1] = NoResponse /\ returned[2] # None
=============================================================================
